---- MODULE Spec2Model ----
(***************************************************************************)
(* A model of the FX timing ML pipeline: the pooled dataset builder, the   *)
(* economic backtest and the ensemble of train.py, the feature engine of   *)
(* features.py and the per-pair trainer and predictor of predictor.py.     *)
(*                                                                         *)
(* Arithmetic is exact: rates are integer ticks, probabilities, weights    *)
(* and accuracies are hundredths, returns are basis points.  The IEEE      *)
(* rounding of the Python floats is modelled only where the code truncates *)
(* a float product to an integer (IntMul070, IntMul085).                   *)
(***************************************************************************)
EXTENDS Integers, Sequences, FiniteSets, TLC

VARIABLES
    \* ---- train.py: build_global_dataset
    FORWARD_WINDOW,   \* features.FORWARD_WINDOW, fixed at import time
    WARMUP_ROWS,      \* leading rows whose rolling features are undefined
    csv,              \* historical_rates.csv: corridor -> dates in file order
    pending,          \* corridors the groupby loop has not visited yet
    train_sl, val_sl, test_sl,   \* the per-corridor slices collected so far
    train, val, test, \* the pooled tables returned
    split_pc,         \* "loop" | "done" | "error"
    \* ---- train.py: backtest_timing_value
    test_data,        \* rows [rate, proba, pctile] of the test table
    has_rate,         \* "rate" in test_data.columns
    bt_start,         \* the loop variable start
    random_rates, scored_rates, pctile_rates, oracle_rates,
    wins,             \* windows whose scored rate beats the window average
    bt_pc,            \* "loop" | "report" | "done" | "skipped" | "error"
    \* ---- train.py: train_global_model (blend tuning) and EnsembleModel
    logreg, xgb,      \* the fitted models: input row -> P(class 1), hundredths
    y_val,            \* labels of the validation rows (X_val is rows 1..n)
    grid_i,           \* position in np.arange(0.3, 0.8, 0.05)
    best_auc, best_w, \* best_auc as a pair count (see AucNum), best_w hundredths
    ensemble,         \* None or [w_lr, w_xgb] (hundredths)
    calls,            \* the predict_proba / predict calls made, with results
    ens_pc,           \* "tune" | "tuned" | "built" | "error"
    \* ---- features.py: engineer_features on two histories of one corridor
    hist_a, hist_b,   \* the input tables
    cutoff,           \* the last date on which the two histories agree
    eng_a, eng_b,     \* <<>> or <<the table engineer_features returned>>
    \* ---- predictor.py: train_and_evaluate and predict_rate_movement
    data_csv,         \* the pair's table that load_pair_data reads
    artifacts,        \* MODEL_DIR: the two model files and the metadata file
    fitted,           \* what train_and_evaluate holds between fit and save
    train_out,        \* <<>> or <<outcome of train_and_evaluate>>
    train_pc,         \* "idle" | "dump_24h" | "dump_72h" | "meta" | "done" | "error"
    recent_data_df,   \* the history given to predict_rate_movement
    predict_out,      \* <<>> or <<outcome of predict_rate_movement>>
    \* ---- predictor.py: the confidence of predict_rate_movement, call by call
    conf_calls,       \* the calls made: [best_acc, pred_return_1d, vol, out]
    \* ---- predictor.py: load_pair_data and the loading step of train_and_evaluate
    data_dir,         \* DATA_DIR and the csv_path file: file |-> <<>> (absent) or <<table>>
    load_calls,       \* the calls made: [fn, pair_name, csv_path, out]
    \* ---- main.py: the /predict endpoint
    svc_data,         \* data/EUR_USD.csv: <<>> (absent) or <<table>>
    today,            \* date.today(), in days since 1970-01-01
    responses,        \* the requests served: [request, day, data, models, error, response]
    \* ---- data/fetch_historical.py: _fetch_json
    fj_url,           \* the argument url
    fj_retries,       \* the argument retries
    fj_attempt,       \* the loop variable attempt
    fj_pc,            \* "idle" | "get" | "except" | "done"
    fj_gets,          \* the GET requests made: [attempt, url, ok]
    fj_sleeps,        \* the calls of time.sleep: [attempt, seconds]
    fj_result,        \* <<>> or <<what _fetch_json returned>>
    \* ---- data/fetch_historical.py: fetch_corridor
    fc_start,         \* the argument start, in days since 1970-01-01
    fc_end,           \* the argument end
    chunk_start,      \* the loop variable chunk_start
    fc_chunks,        \* the chunks requested: [chunk_start, chunk_end, data, added]
    fc_rows,          \* the list rows
    fc_pc,            \* "idle" | "loop" | "done"
    \* ---- data/fetch_historical.py: validate_corridors and main
    fh_corridors,     \* CORRIDORS, in dict order: <<[base, targets], ...>>
    fh_pc,            \* "idle" | "validate" | "fetch" | "save" | "done" | "raised" | "exit"
    fh_errors,        \* the list errors of validate_corridors
    fh_fetched,       \* the corridors fetch_corridor was called for
    all_rows,         \* the list all_rows of main
    fh_output,        \* OUTPUT_FILE: <<>> (not written) or <<rows>>
    \* ---- data/prepare_training_data.py: load_fred, load_cot and prepare_pair
    pp_fx,           \* the FX rows of the pair, by date: <<date, 0>>
    pp_kind,         \* "fred" or "cot": the file the column comes from
    pp_file,         \* the rows of the source file: <<date, value>>, value NaN when the cell is empty
    pp_source,       \* the table load_fred or load_cot returned
    pp_table,        \* the per-pair table prepare_pair returned: <<date, value>>
    pp_pc,            \* "idle" | "load" | "prepare" | "done"
    \* ---- train.py: the segment bounds of one corridor (lines 51-59)
    seg_n,            \* n, the usable rows of the corridor; 0 before the call
    seg_bounds,       \* <<>> or <<[tr_end, va_start, va_end, te_start, accepted]>>
    seg_pc,           \* "idle" | "bounds" | "done"
    \* ---- predictor.py: train_and_evaluate rewriting a pair's artifacts while
    \* ---- predict_rate_movement reads them
    rt_dir,           \* MODEL_DIR: [model_24h, model_72h, meta], each <<>> or <<content>>
    rt_run,           \* the number of training runs started
    rt_fit,           \* <<>> or <<what the running train_and_evaluate holds>>
    rt_train_pc,      \* "idle" | "dump_24h" | "dump_72h" | "meta"
    rt_pc,            \* predict: "idle" | "load_24h" | "load_72h" | "meta"
    rt_loaded,        \* what the running predict_rate_movement has loaded so far
    rt_predictions,   \* the calls of predict_rate_movement that ended
    \* ---- predictor.py: _walk_forward_cv
    wf_table,         \* the dates of the rows of eng, ascending (days since 1970-01-01)
    horizon_shift,    \* the argument horizon_shift
    wf_eng,           \* the dates of eng after the rows without a target are dropped
    test_start_year,  \* the loop variable
    wf_folds,         \* the folds fitted: [test_start_year, train, test, dir_acc]
    wf_result,        \* <<>> or <<what _walk_forward_cv returned>>
    wf_pc             \* "idle" | "start" | "loop" | "done"

splitVars == <<FORWARD_WINDOW, WARMUP_ROWS, csv, pending, train_sl, val_sl,
               test_sl, train, val, test, split_pc>>

btVars == <<test_data, has_rate, bt_start, random_rates, scored_rates,
            pctile_rates, oracle_rates, wins, bt_pc>>

ensVars == <<logreg, xgb, y_val, grid_i, best_auc, best_w, ensemble, calls,
             ens_pc>>

featVars == <<hist_a, hist_b, cutoff, eng_a, eng_b>>

predVars == <<data_csv, artifacts, fitted, train_out, train_pc, recent_data_df,
              predict_out>>

confVars == <<conf_calls>>

loadVars == <<data_dir, load_calls>>

svcVars == <<svc_data, today, responses>>

fjVars == <<fj_url, fj_retries, fj_attempt, fj_pc, fj_gets, fj_sleeps, fj_result>>

fcVars == <<fc_start, fc_end, chunk_start, fc_chunks, fc_rows, fc_pc>>

fhVars == <<fh_corridors, fh_pc, fh_errors, fh_fetched, all_rows, fh_output>>

ppVars == <<pp_fx, pp_kind, pp_file, pp_source, pp_table, pp_pc>>

segVars == <<seg_n, seg_bounds, seg_pc>>

rtVars == <<rt_dir, rt_run, rt_fit, rt_train_pc, rt_pc, rt_loaded, rt_predictions>>

wfVars == <<wf_table, horizon_shift, wf_eng, test_start_year, wf_folds, wf_result, wf_pc>>

vars == <<splitVars, btVars, ensVars, featVars, predVars, confVars, loadVars, svcVars, fjVars, fcVars, fhVars, ppVars, segVars, rtVars, wfVars>>

----------------------------------------------------------------------------
\* Each specification runs one component; the others rest in these states.

\* The dataset builder before it is called.
IdleSplit ==
    /\ FORWARD_WINDOW = 0 /\ WARMUP_ROWS = 0 /\ csv = <<>>
    /\ pending = <<>>
    /\ train_sl = <<>> /\ val_sl = <<>> /\ test_sl = <<>>
    /\ train = <<>> /\ val = <<>> /\ test = <<>>
    /\ split_pc = "idle"

\* The backtest before it is called.
IdleBacktest ==
    /\ test_data = <<>> /\ has_rate = FALSE /\ bt_start = 0
    /\ random_rates = <<>> /\ scored_rates = <<>>
    /\ pctile_rates = <<>> /\ oracle_rates = <<>>
    /\ wins = 0 /\ bt_pc = "idle"

\* The blend tuning before it is reached.
IdleEnsemble ==
    /\ logreg = <<>> /\ xgb = <<>> /\ y_val = <<>>
    /\ grid_i = 0 /\ best_auc = 0 /\ best_w = 0
    /\ ensemble = "None" /\ calls = <<>> /\ ens_pc = "idle"

\* The feature engine before it is called.
IdleFeatures ==
    /\ hist_a = <<>> /\ hist_b = <<>> /\ cutoff = 0
    /\ eng_a = <<>> /\ eng_b = <<>>

\* The predictor before data or requests arrive.
IdlePredictor ==
    /\ data_csv = <<>> /\ artifacts = <<>> /\ fitted = <<>>
    /\ train_out = <<>> /\ train_pc = "idle"
    /\ recent_data_df = <<>> /\ predict_out = <<>>

\* The confidence rule before it is applied.
IdleConfidence ==
    conf_calls = <<>>

\* no table has been loaded
IdleLoad ==
    data_dir = <<>> /\ load_calls = <<>>

\* the service has served no request
IdleService ==
    svc_data = <<>> /\ today = 0 /\ responses = <<>>

\* _fetch_json has not been called
IdleFetchJson ==
    /\ fj_url = "" /\ fj_retries = 0 /\ fj_attempt = 0 /\ fj_pc = "idle"
    /\ fj_gets = <<>> /\ fj_sleeps = <<>> /\ fj_result = <<>>

\* fetch_corridor has not been called
IdleFetchCorridor ==
    /\ fc_start = 0 /\ fc_end = 0 /\ chunk_start = 0 /\ fc_chunks = <<>>
    /\ fc_rows = <<>> /\ fc_pc = "idle"

\* fetch_historical.main has not been run
IdleFetchMain ==
    /\ fh_corridors = <<>> /\ fh_pc = "idle" /\ fh_errors = <<>>
    /\ fh_fetched = <<>> /\ all_rows = <<>> /\ fh_output = <<>>

\* prepare_training_data.main has not been run
IdlePrepare ==
    /\ pp_fx = <<>> /\ pp_kind = "none" /\ pp_file = <<>> /\ pp_source = <<>>
    /\ pp_table = <<>> /\ pp_pc = "idle"

\* no corridor has reached the segment bounds
IdleSegments ==
    /\ seg_n = 0 /\ seg_bounds = <<>> /\ seg_pc = "idle"

\* no artifact is being rewritten
IdleRetrain ==
    /\ rt_dir = <<>> /\ rt_run = 0 /\ rt_fit = <<>> /\ rt_train_pc = "idle"
    /\ rt_pc = "idle" /\ rt_loaded = <<>> /\ rt_predictions = <<>>

\* _walk_forward_cv has not been called
IdleWalkForward ==
    /\ wf_table = <<>> /\ horizon_shift = 0 /\ wf_eng = <<>> /\ test_start_year = 0
    /\ wf_folds = <<>> /\ wf_result = <<>> /\ wf_pc = "idle"

----------------------------------------------------------------------------
\* Generic helpers

Min(a, b) == IF a < b THEN a ELSE b
Max(a, b) == IF a > b THEN a ELSE b

Range(s) == {s[i] : i \in DOMAIN s}

\* the sum of s[lo..hi], by halves
RECURSIVE SumRange(_, _, _)
SumRange(s, lo, hi) ==
    IF lo > hi THEN 0
    ELSE IF lo = hi THEN s[lo]
    ELSE LET mid == (lo + hi) \div 2
         IN  SumRange(s, lo, mid) + SumRange(s, mid + 1, hi)

SumSeq(s) == SumRange(s, 1, Len(s))

RECURSIVE Flatten(_)
Flatten(ss) == IF ss = <<>> THEN <<>> ELSE Head(ss) \o Flatten(Tail(ss))

\* DataFrame.iloc[a:b] on a table held as a sequence (positions from 0).
ILoc(s, a, b) == SubSeq(s, Min(a, Len(s)) + 1, Min(b, Len(s)))

\* The number of rows of the date-sorted table s[lo..hi], plus lo - 1, whose
\* date is at most d (binary search).
RECURSIVE UpperBound(_, _, _, _)
UpperBound(s, d, lo, hi) ==
    IF lo > hi THEN lo - 1
    ELSE LET mid == (lo + hi) \div 2
         IN  IF s[mid].date <= d
             THEN UpperBound(s, d, mid + 1, hi)
             ELSE UpperBound(s, d, lo, mid - 1)

\* DataFrame.sort_values("date") on rows with a date field: r goes after
\* the rows dated at or before it.
InsertByDate(sorted, r) ==
    LET k == UpperBound(sorted, r.date, 1, Len(sorted))
    IN  SubSeq(sorted, 1, k) \o <<r>> \o SubSeq(sorted, k + 1, Len(sorted))

\* The rows s[lo..hi] inserted one by one into acc.  The range is split in
\* halves and the left half is evaluated first (the test on its length), so
\* that the evaluation depth stays logarithmic in the table length.
RECURSIVE InsertAll(_, _, _, _)
InsertAll(acc, s, lo, hi) ==
    IF lo > hi THEN acc
    ELSE IF lo = hi THEN InsertByDate(acc, s[lo])
    ELSE LET mid == (lo + hi) \div 2
             left == InsertAll(acc, s, lo, mid)
         IN  IF Len(left) >= 0 THEN InsertAll(left, s, mid + 1, hi) ELSE left

sort_values_none(s) == s
sort_values(s) == InsertAll(<<>>, s, 1, Len(s))

\* reset_index(drop=True): the row labels become the positions 0..n-1.
reset_index(s) == [i \in DOMAIN s |-> [s[i] EXCEPT !.idx = i - 1]]

----------------------------------------------------------------------------
\* train.py: build_global_dataset

CorridorOrder == <<"EUR_USD", "GBP_INR">>
Corridors == Range(CorridorOrder)

MinRawRows == 120
MinUsableRows == 80
MinTestRows == 20

\* Bounds of the model.
MaxForward == 2
MaxRawLen == 230
RawLens == {100, 130, 200, MaxRawLen}
WarmChoices == {59, 89}
FileOrders == {"asc", "desc"}

PURGE_DAYS == FORWARD_WINDOW

\* int(n * 0.70): the double nearest 0.70 lies below 7/10, and for these n
\* the rounded product falls just under the integer 7n/10.
RoundsBelow070 == {90, 170, 180, 330, 340, 350, 360}
IntMul070(n) == IF n \in RoundsBelow070 THEN (7 * n) \div 10 - 1 ELSE (7 * n) \div 10

\* int(n * 0.85): equal to floor(85n/100) for every n up to 600.
IntMul085(n) == (85 * n) \div 100

\* The rows of one corridor as read from the file.
FileRows(c, len, order) ==
    [i \in 1..len |->
        [corr |-> c, idx |-> i - 1,
         date |-> IF order = "asc" THEN i ELSE len + 1 - i]]

\* engineer_features of the pooled pipeline followed by
\* dropna(subset=["target_send_now"] + FEATURE_COLS): the table is sorted by
\* date; the first WARMUP_ROWS rows have undefined rolling features and the
\* last FORWARD_WINDOW rows have an undefined target.
engineer_and_dropna(group) ==
    LET sorted == sort_values(group)
    IN  SubSeq(sorted, Min(WARMUP_ROWS, Len(sorted)) + 1,
               Max(Len(sorted) - FORWARD_WINDOW, 0))

tr_end(n) == IntMul070(n)
va_start_nopurge(n) == tr_end(n)
va_start(n) == tr_end(n) + PURGE_DAYS
va_end(n) == IntMul085(n)
te_start_nopurge(n) == va_end(n)
te_start(n) == va_end(n) + PURGE_DAYS

\* feat after line 50 (sort_values + reset_index) for the corridor at the head
\* of the loop.
CurGroup == csv[Head(pending)]
CurFeat == reset_index(sort_values(engineer_and_dropna(CurGroup)))

InitSplit ==
    /\ FORWARD_WINDOW \in 0..MaxForward
    /\ WARMUP_ROWS \in WarmChoices
    /\ csv \in {[c \in Corridors |-> FileRows(c, l[c], o)] :
                  l \in [Corridors -> RawLens], o \in FileOrders}
    /\ pending = CorridorOrder
    /\ train_sl = <<>> /\ val_sl = <<>> /\ test_sl = <<>>
    /\ train = <<>> /\ val = <<>> /\ test = <<>>
    /\ split_pc = "loop"
    /\ IdleBacktest /\ IdleEnsemble /\ IdleFeatures /\ IdlePredictor /\ IdleConfidence /\ IdleLoad /\ IdleService /\ IdleFetchJson /\ IdleFetchCorridor /\ IdleFetchMain /\ IdlePrepare /\ IdleSegments /\ IdleRetrain /\ IdleWalkForward

SplitFrame ==
    /\ UNCHANGED <<FORWARD_WINDOW, WARMUP_ROWS, csv>>
    /\ UNCHANGED <<btVars, ensVars, featVars, predVars, confVars, loadVars, svcVars, fjVars, fcVars, fhVars, ppVars, segVars, rtVars, wfVars>>

\* line 42: if len(group) < 120: continue
SkipShortRaw ==
    /\ split_pc = "loop" /\ pending # <<>>
    /\ Len(CurGroup) < MinRawRows
    /\ pending' = Tail(pending)
    /\ UNCHANGED <<train_sl, val_sl, test_sl, train, val, test, split_pc>>
    /\ SplitFrame

\* line 47: if len(feat) < 80: continue
SkipFewUsable ==
    /\ split_pc = "loop" /\ pending # <<>>
    /\ Len(CurGroup) >= MinRawRows
    /\ Len(engineer_and_dropna(CurGroup)) < MinUsableRows
    /\ pending' = Tail(pending)
    /\ UNCHANGED <<train_sl, val_sl, test_sl, train, val, test, split_pc>>
    /\ SplitFrame

\* line 58: if te_start >= n - 20: continue
SkipNoTest ==
    /\ split_pc = "loop" /\ pending # <<>>
    /\ Len(CurGroup) >= MinRawRows
    /\ LET n == Len(engineer_and_dropna(CurGroup))
       IN  /\ n >= MinUsableRows
           /\ te_start(n) >= n - MinTestRows
    /\ pending' = Tail(pending)
    /\ UNCHANGED <<train_sl, val_sl, test_sl, train, val, test, split_pc>>
    /\ SplitFrame

\* lines 61-63: the three slices of an accepted corridor
AcceptCorridor ==
    /\ split_pc = "loop" /\ pending # <<>>
    /\ Len(CurGroup) >= MinRawRows
    /\ LET feat == CurFeat
           n == Len(feat)
       IN  /\ n >= MinUsableRows
           /\ te_start(n) < n - MinTestRows
           /\ train_sl' = Append(train_sl, ILoc(feat, 0, tr_end(n)))
           /\ val_sl' = Append(val_sl, ILoc(feat, va_start(n), va_end(n)))
           /\ test_sl' = Append(test_sl, ILoc(feat, te_start(n), n))
    /\ pending' = Tail(pending)
    /\ UNCHANGED <<train, val, test, split_pc>>
    /\ SplitFrame

\* lines 67-70: pd.concat(..., ignore_index=True) of the three lists
ConcatPooled ==
    /\ split_pc = "loop" /\ pending = <<>>
    /\ train_sl # <<>>
    /\ train' = reset_index(Flatten(train_sl))
    /\ val' = reset_index(Flatten(val_sl))
    /\ test' = reset_index(Flatten(test_sl))
    /\ split_pc' = "done"
    /\ UNCHANGED <<pending, train_sl, val_sl, test_sl>>
    /\ SplitFrame

\* line 67 with no accepted corridor: pd.concat([]) raises ValueError
ConcatNothing ==
    /\ split_pc = "loop" /\ pending = <<>>
    /\ train_sl = <<>>
    /\ split_pc' = "error"
    /\ UNCHANGED <<pending, train_sl, val_sl, test_sl, train, val, test>>
    /\ SplitFrame

NextSplit ==
    \/ SkipShortRaw
    \/ SkipFewUsable
    \/ SkipNoTest
    \/ AcceptCorridor
    \/ ConcatPooled
    \/ ConcatNothing

SpecSplit == InitSplit /\ [][NextSplit]_vars

\* The accepted corridors, by position in the three slice lists.
Accepted == DOMAIN train_sl

SegmentsOf(k) == <<train_sl[k], val_sl[k], test_sl[k]>>

\* C1: in every corridor that contributes rows, every validation row lies
\* more than PURGE_DAYS positions after the last training row and every test
\* row more than PURGE_DAYS positions after the last validation row, so a
\* forward window of FORWARD_WINDOW rows that starts in one segment ends
\* before the first row of every later segment.
C1_PurgeGap ==
    \A k \in Accepted :
        LET tr == train_sl[k]
            va == val_sl[k]
            te == test_sl[k]
        IN  /\ tr # <<>> =>
                 \A v \in Range(va) : v.idx - tr[Len(tr)].idx > PURGE_DAYS
            /\ va # <<>> =>
                 \A e \in Range(te) : e.idx - va[Len(va)].idx > PURGE_DAYS
            /\ \A t \in Range(tr) : \A x \in Range(va) \cup Range(te) :
                 t.idx + FORWARD_WINDOW < x.idx
            /\ \A v \in Range(va) : \A e \in Range(te) :
                 v.idx + FORWARD_WINDOW < e.idx

\* An accepted corridor with all three segments populated and a forward
\* window of at least one row.
C1_Witness ==
    \E k \in Accepted :
        /\ FORWARD_WINDOW >= 1
        /\ train_sl[k] # <<>> /\ val_sl[k] # <<>> /\ test_sl[k] # <<>>

IsRun(seg) ==
    \A i \in 1..(Len(seg) - 1) :
        /\ seg[i + 1].idx = seg[i].idx + 1
        /\ seg[i].date < seg[i + 1].date
        /\ seg[i + 1].corr = seg[i].corr

AllBefore(early, late) ==
    \A a \in Range(early) : \A b \in Range(late) :
        a.corr = b.corr => a.date < b.date /\ a.idx < b.idx

DatesBefore(early, late) ==
    \A a \in Range(early) : \A b \in Range(late) :
        a.corr = b.corr => a.date < b.date

\* C2: per corridor the train, validation and test segments are pairwise
\* disjoint contiguous runs of the chronologically sorted rows, every training
\* date before every validation date before every test date; in the pooled
\* tables no later row of a corridor sits in an earlier segment than an
\* earlier row of the same corridor.
C2_TimeDirection ==
    /\ \A k \in Accepted :
          /\ IsRun(train_sl[k]) /\ IsRun(val_sl[k]) /\ IsRun(test_sl[k])
          /\ AllBefore(train_sl[k], val_sl[k])
          /\ AllBefore(val_sl[k], test_sl[k])
          /\ AllBefore(train_sl[k], test_sl[k])
    /\ split_pc = "done" =>
          /\ DatesBefore(train, val)
          /\ DatesBefore(val, test)
          /\ DatesBefore(train, test)
          /\ \A c \in Corridors :
                Cardinality({r.date : r \in {x \in Range(train) \cup Range(val)
                                                   \cup Range(test) : x.corr = c}})
                = Cardinality({i \in DOMAIN train : train[i].corr = c})
                  + Cardinality({i \in DOMAIN val : val[i].corr = c})
                  + Cardinality({i \in DOMAIN test : test[i].corr = c})

\* Both corridors pooled from a file that lists the dates in descending
\* order.
C2_Witness ==
    /\ split_pc = "done"
    /\ Len(train_sl) = 2
    /\ \A c \in Corridors : csv[c][1].date > csv[c][2].date
    /\ \E i \in DOMAIN train, j \in DOMAIN train : train[i].corr # train[j].corr
    /\ val # <<>> /\ test # <<>>

----------------------------------------------------------------------------
\* train.py: backtest_timing_value

window_size == 10
blend_weight == 40      \* the default blend_weight=0.40, in hundredths

\* Bounds of the model.
MaxTestRows == 21

\* A test table of n rows: the rate peaks at row a, the model probability at
\* row b and the 60-day range position at row c (rows counted from 1).
TestTable(n, a, b, c) ==
    [i \in 1..n |->
        [rate   |-> IF i = a THEN 9 ELSE 3 + ((2 * i) % 5),
         proba  |-> IF i = b THEN 90 ELSE 20 + 10 * ((3 * i) % 4),
         pctile |-> IF i = c THEN 100 ELSE 25 * (i % 4)]]

Column(t, f) == [i \in DOMAIN t |-> t[i][f]]

rates == Column(test_data, "rate")
model_proba == Column(test_data, "proba")
raw_pctile == Column(test_data, "pctile")

\* line 135, in units of 1/10000
blended_score ==
    [i \in DOMAIN test_data |->
        blend_weight * model_proba[i] + (100 - blend_weight) * raw_pctile[i]]

\* np.max and np.argmax (the first position of the maximum, from 0)
MaxOf(w) == CHOOSE m \in Range(w) : \A x \in Range(w) : x <= m
argmax(w) ==
    (CHOOSE i \in DOMAIN w :
        /\ w[i] = MaxOf(w)
        /\ \A j \in DOMAIN w : w[j] = MaxOf(w) => i <= j) - 1

\* col[start:end]
Slice(col, start, end) == ILoc(col, start, end)

\* np.mean of a window, in tenths of a tick
MeanTenths(w) == (10 * SumSeq(w)) \div Len(w)

\* window_rates[np.argmax(window_x)]
PickRateWrongBase(window_rates, window_x) == rates[argmax(window_x) + 1]
PickRate(window_rates, window_x) == window_rates[argmax(window_x) + 1]

OracleMin(window_rates) == CHOOSE m \in Range(window_rates) :
                              \A x \in Range(window_rates) : m <= x
Oracle(window_rates) == MaxOf(window_rates)

InitBacktest ==
    /\ \E n \in 0..MaxTestRows :
         \E a \in 1..Max(n, 1), b \in 1..Max(n, 1) :
           \E c \in {a, b} :
              test_data = TestTable(n, a, b, c)
    /\ has_rate \in BOOLEAN
    /\ has_rate = FALSE => Len(test_data) = window_size
    /\ bt_start = 0
    /\ random_rates = <<>> /\ scored_rates = <<>>
    /\ pctile_rates = <<>> /\ oracle_rates = <<>>
    /\ wins = 0
    /\ bt_pc = "loop"
    /\ IdleSplit /\ IdleEnsemble /\ IdleFeatures /\ IdlePredictor /\ IdleConfidence /\ IdleLoad /\ IdleService /\ IdleFetchJson /\ IdleFetchCorridor /\ IdleFetchMain /\ IdlePrepare /\ IdleSegments /\ IdleRetrain /\ IdleWalkForward

BacktestFrame ==
    /\ UNCHANGED <<test_data, has_rate>>
    /\ UNCHANGED <<splitVars, ensVars, featVars, predVars, confVars, loadVars, svcVars, fjVars, fcVars, fhVars, ppVars, segVars, rtVars, wfVars>>

\* lines 125-127: the table has no rate column
BacktestSkipped ==
    /\ bt_pc = "loop" /\ bt_start = 0 /\ ~has_rate
    /\ bt_pc' = "skipped"
    /\ UNCHANGED <<bt_start, random_rates, scored_rates, pctile_rates,
                   oracle_rates, wins>>
    /\ BacktestFrame

\* lines 142-151: one iteration of  for start in range(0, n - window_size,
\* window_size)
BacktestWindow ==
    /\ bt_pc = "loop" /\ has_rate
    /\ bt_start < Len(rates) - window_size
    /\ LET end == bt_start + window_size
           window_rates == Slice(rates, bt_start, end)
           window_scores == Slice(blended_score, bt_start, end)
           window_pctile == Slice(raw_pctile, bt_start, end)
       IN  /\ random_rates' = Append(random_rates, MeanTenths(window_rates))
           /\ scored_rates' = Append(scored_rates, PickRate(window_rates, window_scores))
           /\ pctile_rates' = Append(pctile_rates, PickRate(window_rates, window_pctile))
           /\ oracle_rates' = Append(oracle_rates, Oracle(window_rates))
    /\ bt_start' = bt_start + window_size
    /\ UNCHANGED <<wins, bt_pc>>
    /\ BacktestFrame

\* the range is exhausted
BacktestLoopEnd ==
    /\ bt_pc = "loop" /\ has_rate
    /\ ~(bt_start < Len(rates) - window_size)
    /\ bt_pc' = "report"
    /\ UNCHANGED <<bt_start, random_rates, scored_rates, pctile_rates,
                   oracle_rates, wins>>
    /\ BacktestFrame

\* lines 153-179 with at least one window: the averages and the win ratio
BacktestReport ==
    /\ bt_pc = "report" /\ Len(random_rates) > 0
    /\ wins' = Cardinality({w \in DOMAIN scored_rates :
                               10 * scored_rates[w] > random_rates[w]})
    /\ bt_pc' = "done"
    /\ UNCHANGED <<bt_start, random_rates, scored_rates, pctile_rates,
                   oracle_rates>>
    /\ BacktestFrame

\* lines 177-179 with no window: wins / len(random_rates) divides by zero
BacktestZeroDivision ==
    /\ bt_pc = "report" /\ Len(random_rates) = 0
    /\ bt_pc' = "error"
    /\ UNCHANGED <<bt_start, random_rates, scored_rates, pctile_rates,
                   oracle_rates, wins>>
    /\ BacktestFrame

NextBacktest ==
    \/ BacktestSkipped
    \/ BacktestWindow
    \/ BacktestLoopEnd
    \/ BacktestReport
    \/ BacktestZeroDivision

SpecBacktest == InitBacktest /\ [][NextBacktest]_vars

\* The rows (from 1) of the w-th evaluated window.
WindowRows(w) == (window_size * (w - 1) + 1)..(window_size * w)

\* C3: in every evaluated window the oracle rate is the window maximum, it is
\* at least the rate picked by the highest blended score, the rate picked by
\* the highest raw percentile and the window average, and each picked rate is
\* the rate of a row of that window carrying the window's highest score.
C3_OracleDominates ==
    \A w \in DOMAIN oracle_rates :
        /\ WindowRows(w) \subseteq DOMAIN test_data
        /\ \A i \in WindowRows(w) : rates[i] <= oracle_rates[w]
        /\ oracle_rates[w] >= scored_rates[w]
        /\ oracle_rates[w] >= pctile_rates[w]
        /\ 10 * oracle_rates[w] >= random_rates[w]
        /\ window_size * random_rates[w]
             = 10 * SumSeq([k \in 1..window_size |->
                              rates[window_size * (w - 1) + k]])
        /\ \E i \in WindowRows(w) :
              /\ scored_rates[w] = rates[i]
              /\ \A j \in WindowRows(w) : blended_score[j] <= blended_score[i]
        /\ \E i \in WindowRows(w) :
              /\ pctile_rates[w] = rates[i]
              /\ \A j \in WindowRows(w) : raw_pctile[j] <= raw_pctile[i]

\* Two windows evaluated, the second holding the rate peak while its score
\* pick is a row with a lower rate.
C3_Witness ==
    /\ bt_pc = "done"
    /\ Len(oracle_rates) = 2
    /\ oracle_rates[2] > scored_rates[2]
    /\ oracle_rates[2] = 9

\* C4: the evaluated windows are all the complete windows of 10 rows, rows
\* [10k, 10k+10) for every k with 10k+10 <= n, so a table of at least 10 rows
\* yields at least one window and the win ratio is defined.
C4_EveryCompleteWindow ==
    /\ bt_pc \in {"report", "done", "error"} =>
          Len(oracle_rates) = Len(test_data) \div window_size
    /\ Len(test_data) >= window_size => bt_pc # "error"

----------------------------------------------------------------------------
\* train.py: blend-weight tuning of train_global_model, and EnsembleModel

\* Bounds of the model.
MaxValRows == 2
MaxCalls == 2

Inputs == 1..MaxValRows      \* the distinct feature rows (X_val is all of them)
TestInputs == {1, 2}         \* the rows later passed to the ensemble
Probs == {20, 50, 80}        \* predicted probabilities, in hundredths

GridLen == 10                \* len(np.arange(0.3, 0.8, 0.05))
GridStart == 30
GridStep == 5
GridW(i) == GridStart + GridStep * i
Grid == {GridW(i) : i \in 0..(GridLen - 1)}

DefaultBestW == 50
HalfProb == 5000             \* the 0.5 threshold of predict, in 1/10000

\* line 271: blended = (1 - w_xgb) * lr_val + w_xgb * xgb_val, in 1/10000
Blended(w, x) == (100 - w) * logreg[x] + w * xgb[x]

Pos == {i \in DOMAIN y_val : y_val[i] = 1}
Neg == {i \in DOMAIN y_val : y_val[i] = 0}

\* roc_auc_score(y_val, blended) times 2 * |Pos| * |Neg|: a positive row scored
\* above a negative row counts 2, a tie counts 1.  The factor is the same for
\* every weight, so the comparisons of line 273 are exact.
AucNum(w) ==
    2 * Cardinality({pr \in Pos \X Neg : Blended(w, pr[1]) > Blended(w, pr[2])})
      + Cardinality({pr \in Pos \X Neg : Blended(w, pr[1]) = Blended(w, pr[2])})

\* line 273: if auc > best_auc
BetterOrEqual(auc, best) == auc >= best
Better(auc, best) == auc > best

InitEnsemble ==
    /\ logreg \in [Inputs -> Probs]
    /\ xgb \in [Inputs -> Probs]
    /\ y_val \in [Inputs -> {0, 1}]
    /\ grid_i = 0
    /\ best_auc = 0 /\ best_w = DefaultBestW
    /\ ensemble = "None"
    /\ calls = <<>>
    /\ ens_pc = "tune"
    /\ IdleSplit /\ IdleBacktest /\ IdleFeatures /\ IdlePredictor /\ IdleConfidence /\ IdleLoad /\ IdleService /\ IdleFetchJson /\ IdleFetchCorridor /\ IdleFetchMain /\ IdlePrepare /\ IdleSegments /\ IdleRetrain /\ IdleWalkForward

EnsembleFrame ==
    /\ UNCHANGED <<logreg, xgb, y_val>>
    /\ UNCHANGED <<splitVars, btVars, featVars, predVars, confVars, loadVars, svcVars, fjVars, fcVars, fhVars, ppVars, segVars, rtVars, wfVars>>

\* line 272 on a validation table with a single class: roc_auc_score raises
TuneAucUndefined ==
    /\ ens_pc = "tune" /\ grid_i < GridLen
    /\ (Pos = {} \/ Neg = {})
    /\ ens_pc' = "error"
    /\ UNCHANGED <<grid_i, best_auc, best_w, ensemble, calls>>
    /\ EnsembleFrame

\* lines 270-274: one grid weight
TuneStep ==
    /\ ens_pc = "tune" /\ grid_i < GridLen
    /\ Pos # {} /\ Neg # {}
    /\ LET w_xgb == GridW(grid_i)
           auc == AucNum(w_xgb)
       IN  IF Better(auc, best_auc)
           THEN best_auc' = auc /\ best_w' = w_xgb
           ELSE UNCHANGED <<best_auc, best_w>>
    /\ grid_i' = grid_i + 1
    /\ UNCHANGED <<ensemble, calls, ens_pc>>
    /\ EnsembleFrame

\* line 278: EnsembleModel(logreg, xgb, weight_lr=1 - best_w, weight_xgb=best_w)
BuildEnsemble ==
    /\ ens_pc = "tune" /\ grid_i = GridLen
    /\ ensemble' = [w_lr |-> 100 - best_w, w_xgb |-> best_w]
    /\ ens_pc' = "built"
    /\ UNCHANGED <<grid_i, best_auc, best_w, calls>>
    /\ EnsembleFrame

\* lines 82-86: one row of EnsembleModel.predict_proba, in 1/10000
predict_proba_swapped(x) ==
    LET p_avg == ensemble.w_xgb * logreg[x] + ensemble.w_lr * xgb[x]
    IN  <<10000 - p_avg, p_avg>>
predict_proba(x) ==
    LET p_lr == logreg[x]
        p_xgb == xgb[x]
        p_avg == ensemble.w_lr * p_lr + ensemble.w_xgb * p_xgb
    IN  <<10000 - p_avg, p_avg>>

\* lines 88-89: EnsembleModel.predict
predict_strict(x) == IF predict_proba(x)[2] > HalfProb THEN 1 ELSE 0
predict(x) == IF predict_proba(x)[2] >= HalfProb THEN 1 ELSE 0

\* ensemble.predict_proba(X) on a one-row X (lines 130, 283)
CallPredictProba ==
    /\ ens_pc = "built" /\ Len(calls) < MaxCalls
    /\ \E x \in TestInputs :
          calls' = Append(calls, [fn |-> "predict_proba", x |-> x,
                                  out |-> predict_proba(x)])
    /\ UNCHANGED <<grid_i, best_auc, best_w, ensemble, ens_pc>>
    /\ EnsembleFrame

\* ensemble.predict(X) on a one-row X (line 286)
CallPredict ==
    /\ ens_pc = "built" /\ Len(calls) < MaxCalls
    /\ \E x \in TestInputs :
          calls' = Append(calls, [fn |-> "predict", x |-> x,
                                  out |-> predict(x)])
    /\ UNCHANGED <<grid_i, best_auc, best_w, ensemble, ens_pc>>
    /\ EnsembleFrame

NextEnsemble ==
    \/ TuneAucUndefined
    \/ TuneStep
    \/ BuildEnsemble
    \/ CallPredictProba
    \/ CallPredict

SpecEnsemble == InitEnsemble /\ [][NextEnsemble]_vars

\* The validation AUC of every grid weight, in grid order.
GridAucs == SubSeq([i \in 1..GridLen |-> AucNum(GridW(i - 1))], 1, GridLen)

MaximisersOf(aucs) ==
    LET m == MaxOf(aucs)
    IN  {GridW(i - 1) : i \in {j \in DOMAIN aucs : aucs[j] = m}}

\* C5 as stated: after the tuning the XGBoost weight is the smallest grid
\* weight of maximal validation AUC, and the two blend weights sum to 1.
C5_SmallestMaximiser ==
    ens_pc = "built" =>
        LET best == MaximisersOf(GridAucs)
        IN  /\ ensemble.w_xgb \in best
            /\ \A g \in best : ensemble.w_xgb <= g
            /\ ensemble.w_lr + ensemble.w_xgb = 100

\* C5 amended: the XGBoost weight is a grid weight of maximal validation AUC;
\* it is the smallest such weight when that AUC is positive and the initial
\* 0.50 when every grid weight has AUC 0; the two blend weights sum to 1.
C5_MaximiserOrDefault ==
    ens_pc = "built" =>
        LET aucs == GridAucs
            best == MaximisersOf(aucs)
        IN  /\ ensemble.w_xgb \in best
            /\ MaxOf(aucs) > 0 => \A g \in best : ensemble.w_xgb <= g
            /\ MaxOf(aucs) = 0 => ensemble.w_xgb = DefaultBestW
            /\ ensemble.w_lr + ensemble.w_xgb = 100
            /\ ensemble.w_xgb = best_w

\* A tuning whose best weight lies strictly inside the grid, with several
\* maximisers.
C5_Witness ==
    /\ ens_pc = "built"
    /\ MaxOf(GridAucs) > 0
    /\ Cardinality(MaximisersOf(GridAucs)) > 1
    /\ ensemble.w_xgb > GridStart
    /\ ensemble.w_xgb # DefaultBestW

CallsRight ==
    \A k \in DOMAIN calls :
        LET c == calls[k]
            p == ensemble.w_lr * logreg[c.x] + ensemble.w_xgb * xgb[c.x]
        IN  /\ c.fn = "predict_proba" => c.out = <<10000 - p, p>>
            /\ c.fn = "predict" => (c.out = 1 <=> p >= HalfProb) /\ c.out \in {0, 1}

CallsAgree ==
    \A j \in DOMAIN calls : \A k \in DOMAIN calls :
        (calls[j].fn = calls[k].fn /\ calls[j].x = calls[k].x)
            => calls[j].out = calls[k].out

\* C6: predict_proba and predict leave the blend weights and both models
\* unchanged, two calls on the same input return the same result, each
\* predict_proba row is (1 - p, p) with p = w_lr * p_logreg + w_xgb * p_xgb,
\* and predict returns 1 exactly when p >= 0.5.
C6_PureEnsemble ==
    /\ [](CallsRight /\ CallsAgree)
    /\ [][Len(calls') > Len(calls) =>
            UNCHANGED <<ensemble, logreg, xgb, best_w>>]_vars

\* The same input scored twice by predict, with p exactly 0.5.
C6_Witness ==
    /\ Len(calls) = 2
    /\ calls[1].fn = "predict" /\ calls[2].fn = "predict"
    /\ calls[1].x = calls[2].x
    /\ predict_proba(calls[1].x)[2] = HalfProb

----------------------------------------------------------------------------
\* features.py: values, calendar and rolling helpers

\* np.nan: a value outside the range of every number a column holds
NaN == -1000000000
SCALE == 1000               \* fixed point: 1.0 is 1000

\* np.log of a rate of 1..6 ticks, times SCALE
LnMilli(r) ==
    CASE r = 1 -> 0 [] r = 2 -> 693 [] r = 3 -> 1099
      [] r = 4 -> 1386 [] r = 5 -> 1609 [] r = 6 -> 1792

Abs(v) == IF v < 0 THEN -v ELSE v

\* floor of the square root
RECURSIVE ISqrtIn(_, _, _)
ISqrtIn(v, lo, hi) ==
    IF lo >= hi THEN lo
    ELSE LET mid == (lo + hi + 1) \div 2
         IN  IF mid * mid <= v THEN ISqrtIn(v, mid, hi) ELSE ISqrtIn(v, lo, mid - 1)
ISqrt(v) == ISqrtIn(v, 0, Min(v, 46340))

\* a Series held as a tuple; Tabulate evaluates every entry once
Tabulate(n, f(_)) == SubSeq([i \in 1..n |-> f(i)], 1, n)

\* Series.shift(d): the value d rows earlier (later when d < 0)
Shift(col, d) ==
    Tabulate(Len(col), LAMBDA i : IF (i - d) \in DOMAIN col THEN col[i - d] ELSE NaN)

\* a / b of two Series entries, times SCALE
Div(a, b) ==
    IF a = NaN \/ b = NaN \/ b = 0 THEN NaN ELSE (SCALE * a) \div b

Sub(a, b) == IF a = NaN \/ b = NaN THEN NaN ELSE a - b

\* a / b - 1
RatioM1(a, b) == Sub(Div(a, b), SCALE)

WindowOf(col, i, w) == SubSeq(col, i - w + 1, i)
WindowDefined(col, i, w) ==
    /\ i >= w
    /\ \A k \in (i - w + 1)..i : col[k] # NaN

\* Series.rolling(w).mean() / .std() / .min() ... : undefined until w rows are
\* seen, and while any row of the trailing window is missing
RollingMean(col, w) ==
    Tabulate(Len(col), LAMBDA i :
        IF WindowDefined(col, i, w) THEN SumSeq(WindowOf(col, i, w)) \div w ELSE NaN)

SumSq(s) == SumSeq([k \in DOMAIN s |-> s[k] * s[k]])

\* sample standard deviation (ddof = 1) of the trailing window
RollingStd(col, w) ==
    Tabulate(Len(col), LAMBDA i :
        IF WindowDefined(col, i, w)
        THEN LET x == WindowOf(col, i, w)
                 mean == SumSeq(x) \div w
                 dev == [k \in DOMAIN x |-> x[k] - mean]
             IN  ISqrt(SumSq(dev) \div (w - 1))
        ELSE NaN)

\* Series.ewm(span=span, adjust=False).mean() of a Series without gaps
\* y[1] = x[1], y[i] = (1 - alpha) * y[i-1] + alpha * x[i], alpha = 2 / (span + 1).
\* EwmExtend appends the entries lo..hi to acc; the range is split in halves
\* and the left half is evaluated first.
RECURSIVE EwmExtend(_, _, _, _, _)
EwmExtend(acc, col, span, lo, hi) ==
    IF lo > hi THEN acc
    ELSE IF lo = hi
    THEN Append(acc, IF lo = 1 THEN col[1]
                     ELSE ((span - 1) * acc[lo - 1] + 2 * col[lo]) \div (span + 1))
    ELSE LET mid == (lo + hi) \div 2
             left == EwmExtend(acc, col, span, lo, mid)
         IN  IF Len(left) >= 0 THEN EwmExtend(left, col, span, mid + 1, hi) ELSE left
Ewm(col, span) == EwmExtend(<<>>, col, span, 1, Len(col))

\* std.replace(0, np.nan)
ZeroToNaN(v) == IF v = 0 THEN NaN ELSE v

\* lines 45-49: _zscore
zscore(series, window) ==
    LET mean == RollingMean(series, window)
        std == RollingStd(series, window)
    IN  Tabulate(Len(series), LAMBDA i :
            Div(Sub(series[i], mean[i]), ZeroToNaN(std[i])))

\* The civil date of a day number (days since 1970-01-01).
Civil(z0) ==
    LET z == z0 + 719468
        era == z \div 146097
        doe == z - era * 146097
        yoe == (doe - doe \div 1460 + doe \div 36524 - doe \div 146096) \div 365
        doy == doe - (365 * yoe + yoe \div 4 - yoe \div 100)
        mp == (5 * doy + 2) \div 153
        d == doy - (153 * mp + 2) \div 5 + 1
        m == IF mp < 10 THEN mp + 3 ELSE mp - 9
    IN  [year |-> yoe + era * 400 + (IF m <= 2 THEN 1 ELSE 0),
         month |-> m, day |-> d]

\* Monday = 0
DayOfWeek(z) == (z + 3) % 7

----------------------------------------------------------------------------
\* features.py: tables.  A DataFrame is a function from column names to
\* columns of one length; "date" counts days since 1970-01-01 and "rate" is
\* in ticks.

NRows(df) == Len(df["date"])
RowAt(df, i) == [c \in DOMAIN df |-> df[c][i]]
RowsOf(df) == [i \in 1..NRows(df) |-> RowAt(df, i)]
FrameOf(cols, rows) ==
    [c \in cols |-> Tabulate(Len(rows), LAMBDA i : rows[i][c])]

\* df.sort_values("date").reset_index(drop=True)
SortFrame(df) == FrameOf(DOMAIN df, sort_values(RowsOf(df)))

\* the rows at the positions idx (a sequence), renumbered
TakeRows(df, idx) ==
    [c \in DOMAIN df |-> Tabulate(Len(idx), LAMBDA k : df[c][idx[k]])]

Positions(n) == Tabulate(n, LAMBDA i : i)

\* df.dropna(subset=subset).reset_index(drop=True): a row goes when any of
\* the subset's columns is missing in it
dropna_any(df, subset) ==
    TakeRows(df, SelectSeq(Positions(NRows(df)),
                           LAMBDA i : \A c \in subset : df[c][i] # NaN))

\* df.dropna(subset=subset, how="all").reset_index(drop=True)
dropna_all(df, subset) ==
    TakeRows(df, SelectSeq(Positions(NRows(df)),
                           LAMBDA i : subset = {} \/ \E c \in subset : df[c][i] # NaN))

\* a gate that asks for the column only
has_col_present(df, col) == col \in DOMAIN df

\* lines 52-54: _has_col
has_col(df, col) ==
    /\ col \in DOMAIN df
    /\ \E i \in DOMAIN df[col] : df[col][i] # NaN

PRICE_FEATURES ==
    << "log_return", "return_2d", "return_3d", "return_5d", "momentum_7d",
       "rate_vs_7d_sma", "rate_vs_14d_sma", "rate_vs_30d_sma", "rate_vs_90d_sma",
       "rate_vs_7d_ema", "rate_vs_14d_ema", "rate_vs_30d_ema",
       "return_7d_std", "return_14d_std", "return_30d_std", "atr_14d_pct",
       "rsi_14d", "macd_pct", "macd_signal_pct", "macd_histogram",
       "bb_width", "bb_position",
       "day_of_week", "day_of_month", "month", "is_month_end", "is_month_start" >>

FUNDAMENTAL_FEATURES ==
    << "carry_level", "carry_change_30d", "carry_zscore_90d",
       "vix_level", "vix_change_5d", "vix_zscore_90d",
       "usd_return_5d", "usd_vs_90d_sma",
       "yield_curve", "oil_return_30d", "hy_spread_zscore" >>

COT_FEATURES ==
    << "cot_from_zscore", "cot_from_change", "cot_to_zscore", "cot_to_change" >>

ALL_POSSIBLE_FEATURES == PRICE_FEATURES \o FUNDAMENTAL_FEATURES \o COT_FEATURES

TARGET_COLUMNS ==
    {"target_return_24h", "target_return_72h", "target_24h", "target_72h"}

\* lines 233-239: get_available_features
get_available_features(df) ==
    SelectSeq(ALL_POSSIBLE_FEATURES, LAMBDA col : has_col(df, col))

----------------------------------------------------------------------------
\* features.py: engineer_features

Times(col, k) == Tabulate(Len(col), LAMBDA i : IF col[i] = NaN THEN NaN ELSE col[i] * k)

\* a / b - 1, row by row
RatioM1Col(a, b) == Tabulate(Len(a), LAMBDA i : RatioM1(a[i], b[i]))
DivCol(a, b) == Tabulate(Len(a), LAMBDA i : Div(a[i], b[i]))
SubCol(a, b) == Tabulate(Len(a), LAMBDA i : Sub(a[i], b[i]))

\* line 81: np.log(rate / rate.shift(1))
log_return(rate) ==
    LET prev == Shift(rate, 1)
    IN  Tabulate(Len(rate), LAMBDA i :
            IF prev[i] = NaN THEN NaN ELSE LnMilli(rate[i]) - LnMilli(prev[i]))

\* lines 82-84: rate / rate.shift(d) - 1
return_nd_ahead(rate, d) == RatioM1Col(rate, Shift(rate, -d))
return_nd(rate, d) == RatioM1Col(rate, Shift(rate, d))

\* lines 103-107: RSI; 100 - 100 / (1 + gain / loss) is 100 * gain / (gain + loss),
\* 100 when only the loss is zero and undefined when both are
rsi(rate) ==
    LET delta == SubCol(rate, Shift(rate, 1))
        up == Tabulate(Len(rate), LAMBDA i :
                  IF delta[i] # NaN /\ delta[i] > 0 THEN delta[i] * SCALE ELSE 0)
        down == Tabulate(Len(rate), LAMBDA i :
                  IF delta[i] # NaN /\ delta[i] < 0 THEN (-delta[i]) * SCALE ELSE 0)
        gain == RollingMean(up, 14)
        loss == RollingMean(down, 14)
    IN  Tabulate(Len(rate), LAMBDA i :
            IF gain[i] = NaN \/ loss[i] = NaN \/ gain[i] + loss[i] = 0 THEN NaN
            ELSE (100 * SCALE * gain[i]) \div (gain[i] + loss[i]))

\* lines 128-132: the calendar columns
Calendar(date) ==
    [day_of_week |-> Tabulate(Len(date), LAMBDA i : DayOfWeek(date[i])),
     day_of_month |-> Tabulate(Len(date), LAMBDA i : Civil(date[i]).day),
     month |-> Tabulate(Len(date), LAMBDA i : Civil(date[i]).month),
     is_month_end |-> Tabulate(Len(date), LAMBDA i :
                         IF Civil(date[i] + 1).day = 1 THEN 1 ELSE 0),
     is_month_start |-> Tabulate(Len(date), LAMBDA i :
                         IF Civil(date[i]).day = 1 THEN 1 ELSE 0)]

\* lines 80-125: tier 1, the price features
PriceColumns(rate) ==
    LET rateS == Times(rate, SCALE)
        log_ret == log_return(rate)
        ema_12 == Ewm(rateS, 12)
        ema_26 == Ewm(rateS, 26)
        macd == SubCol(ema_12, ema_26)
        macd_signal == Ewm(macd, 9)
        sma_20 == RollingMean(rateS, 20)
        std_20 == RollingStd(rateS, 20)
        bb_upper == Tabulate(Len(rate), LAMBDA i :
                        IF std_20[i] = NaN THEN NaN ELSE sma_20[i] + std_20[i] * 2)
        bb_lower == Tabulate(Len(rate), LAMBDA i :
                        IF std_20[i] = NaN THEN NaN ELSE sma_20[i] - std_20[i] * 2)
        bb_range == SubCol(bb_upper, bb_lower)
    IN  [log_return |-> log_ret,
         return_2d |-> return_nd(rate, 2),
         return_3d |-> return_nd(rate, 3),
         return_5d |-> return_nd(rate, 5),
         momentum_7d |-> return_nd(rate, 7),
         rate_vs_7d_sma |-> RatioM1Col(rateS, RollingMean(rateS, 7)),
         rate_vs_14d_sma |-> RatioM1Col(rateS, RollingMean(rateS, 14)),
         rate_vs_30d_sma |-> RatioM1Col(rateS, RollingMean(rateS, 30)),
         rate_vs_90d_sma |-> RatioM1Col(rateS, RollingMean(rateS, 90)),
         rate_vs_7d_ema |-> RatioM1Col(rateS, Ewm(rateS, 7)),
         rate_vs_14d_ema |-> RatioM1Col(rateS, Ewm(rateS, 14)),
         rate_vs_30d_ema |-> RatioM1Col(rateS, Ewm(rateS, 30)),
         return_7d_std |-> RollingStd(log_ret, 7),
         return_14d_std |-> RollingStd(log_ret, 14),
         return_30d_std |-> RollingStd(log_ret, 30),
         atr_14d_pct |-> RollingMean(Tabulate(Len(rate), LAMBDA i :
                             IF log_ret[i] = NaN THEN NaN ELSE Abs(log_ret[i])), 14),
         rsi_14d |-> rsi(rate),
         macd_pct |-> DivCol(macd, rateS),
         macd_signal_pct |-> DivCol(macd_signal, rateS),
         macd_histogram |-> DivCol(SubCol(macd, macd_signal), rateS),
         bb_width |-> DivCol(bb_range, sma_20),
         bb_position |-> DivCol(SubCol(rateS, bb_lower),
                                Tabulate(Len(rate), LAMBDA i : ZeroToNaN(bb_range[i])))]

\* the empty table of columns
NoColumns == [c \in {} |-> <<>>]

\* lines 139-185: tiers 2 and 3, each behind _has_col
OptionalColumns(df) ==
    (IF has_col(df, "rate_differential")
     THEN LET rd == df["rate_differential"]
          IN  [carry_level |-> rd,
               carry_change_30d |-> SubCol(rd, Shift(rd, 30)),
               carry_zscore_90d |-> zscore(rd, 90)]
     ELSE NoColumns)
    @@
    (IF has_col(df, "vix")
     THEN LET vix == df["vix"]
          IN  [vix_level |-> vix,
               vix_change_5d |-> RatioM1Col(vix, Shift(vix, 5)),
               vix_zscore_90d |-> zscore(vix, 90)]
     ELSE NoColumns)
    @@
    (IF has_col(df, "usd_index")
     THEN LET usd == df["usd_index"]
          IN  [usd_return_5d |-> RatioM1Col(usd, Shift(usd, 5)),
               usd_vs_90d_sma |-> RatioM1Col(usd, RollingMean(usd, 90))]
     ELSE NoColumns)
    @@
    (IF has_col(df, "us_yield_spread")
     THEN [yield_curve |-> df["us_yield_spread"]] ELSE NoColumns)
    @@
    (IF has_col(df, "wti_crude")
     THEN LET oil == df["wti_crude"]
          IN  [oil_return_30d |-> RatioM1Col(oil, Shift(oil, 30))]
     ELSE NoColumns)
    @@
    (IF has_col(df, "hy_spread")
     THEN [hy_spread_zscore |-> zscore(df["hy_spread"], 90)] ELSE NoColumns)
    @@
    (IF has_col(df, "cot_from_lev_net")
     THEN LET cot == df["cot_from_lev_net"]
          IN  [cot_from_zscore |-> zscore(cot, 260),
               cot_from_change |-> SubCol(cot, Shift(cot, 5))]
     ELSE NoColumns)
    @@
    (IF has_col(df, "cot_to_lev_net")
     THEN LET cot_to == df["cot_to_lev_net"]
          IN  [cot_to_zscore |-> zscore(cot_to, 260),
               cot_to_change |-> SubCol(cot_to, Shift(cot_to, 5))]
     ELSE NoColumns)

\* lines 191-194: the targets
TargetColumns(rate) ==
    [target_return_24h |-> RatioM1Col(Shift(rate, -1), rate),
     target_return_72h |-> RatioM1Col(Shift(rate, -3), rate),
     target_24h |-> Shift(rate, -1),
     target_72h |-> Shift(rate, -3)]

\* lines 61-199; a column assigned later replaces one of the same name
engineer_features(df0) ==
    LET df == SortFrame(df0)
        rate == df["rate"]
    IN  dropna_any(TargetColumns(rate) @@ OptionalColumns(df) @@ Calendar(df["date"])
                       @@ PriceColumns(rate) @@ df,
                   {"target_return_24h"})

----------------------------------------------------------------------------
\* features.py: engineer_features called on two histories of one corridor that
\* share their rows up to a date and then go their own ways

MaxExtend == 1              \* rows either history gains beyond the shared ones
ShortBase == 4              \* rows of the short shared histories
LongBase == 31              \* rows of the long ones (reach the 30-row windows)

SOURCE_COLUMNS ==
    << "rate_differential", "vix", "usd_index", "us_yield_spread",
       "wti_crude", "hy_spread", "cot_from_lev_net", "cot_to_lev_net" >>

\* dates run over consecutive days from 2024-01-01
DateOfDay(i) == 19722 + i

ExtRates == {2, 3}
Levels == {NaN, 0, 1}

\* a populated cell of a merged source column
SourceFloor(c) ==
    CASE c = "rate_differential" -> -3 [] c = "vix" -> 15
      [] c = "usd_index" -> 100 [] c = "us_yield_spread" -> -1
      [] c = "wti_crude" -> 70 [] c = "hy_spread" -> 3
      [] c = "cot_from_lev_net" -> -5 [] c = "cot_to_lev_net" -> 10
SourceCell(c, date, level) ==
    IF level = NaN THEN NaN ELSE SourceFloor(c) + (date % 7) + level

\* the rate of day i in pattern p; pattern 2 is a rate that never moves
BaseRate(i, p) == IF p = 2 THEN 2 ELSE 1 + ((i + p * (i \div 3)) % 3)

\* the source columns of a history that was merged with some sources only
PARTIAL_COLUMNS == {"vix", "cot_to_lev_net"}

\* kind: "price" has the columns date and rate only; "late" has the source
\* columns, not yet populated; "full" has them populated from the first row;
\* "partial" has PARTIAL_COLUMNS only, populated
BaseChoices ==
    { [len |-> ShortBase, kind |-> "price", order |-> "asc", p |-> 0],
      [len |-> ShortBase, kind |-> "partial", order |-> "asc", p |-> 0],
      [len |-> ShortBase, kind |-> "late", order |-> "desc", p |-> 1],
      [len |-> ShortBase, kind |-> "full", order |-> "asc", p |-> 1],
      [len |-> LongBase, kind |-> "late", order |-> "asc", p |-> 1],
      [len |-> LongBase, kind |-> "full", order |-> "desc", p |-> 0],
      [len |-> LongBase, kind |-> "price", order |-> "asc", p |-> 2] }

HistoryRow(date, rate, kind, level) ==
    [c \in {"date", "rate"} \cup (CASE kind = "price" -> {}
                                    [] kind = "partial" -> PARTIAL_COLUMNS
                                    [] OTHER -> Range(SOURCE_COLUMNS)) |->
        CASE c = "date" -> date
          [] c = "rate" -> rate
          [] OTHER -> SourceCell(c, date, level)]

BaseFrame(b) ==
    LET day(i) == IF b.order = "asc" THEN i ELSE b.len + 1 - i
        rows == [i \in 1..b.len |->
                    HistoryRow(DateOfDay(day(i)), BaseRate(day(i), b.p), b.kind,
                               IF b.kind \in {"full", "partial"} THEN 0 ELSE NaN)]
    IN  FrameOf(DOMAIN rows[1], rows)

AppendRow(df, row) == [c \in DOMAIN df |-> Append(df[c], row[c])]

LastDate(df) == CHOOSE d \in Range(df["date"]) : \A e \in Range(df["date"]) : e <= d
LatestPos(df) == CHOOSE i \in 1..NRows(df) : df["date"][i] = LastDate(df)
Beyond(df, d) == Cardinality({i \in 1..NRows(df) : df["date"][i] > d})
KindOf(df) == IF "vix" \in DOMAIN df THEN "merged" ELSE "price"

\* what the next day's row of the history df can be: the sources stay
\* populated once they are (they are forward-filled)
NextRows(df) ==
    { HistoryRow(LastDate(df) + 1, r, KindOf(df), lv) :
        r \in ExtRates,
        lv \in IF KindOf(df) = "price" THEN {NaN}
               ELSE IF df["vix"][LatestPos(df)] # NaN THEN Levels \ {NaN}
               ELSE Levels }

InitFeatures ==
    /\ \E b \in BaseChoices :
          /\ hist_a = BaseFrame(b)
          /\ hist_b = BaseFrame(b)
          /\ cutoff = DateOfDay(b.len)
    /\ eng_a = <<>> /\ eng_b = <<>>
    /\ IdleSplit /\ IdleBacktest /\ IdleEnsemble /\ IdlePredictor /\ IdleConfidence /\ IdleLoad /\ IdleService /\ IdleFetchJson /\ IdleFetchCorridor /\ IdleFetchMain /\ IdlePrepare /\ IdleSegments /\ IdleRetrain /\ IdleWalkForward

FeaturesFrame == UNCHANGED <<cutoff, splitVars, btVars, ensVars, predVars, confVars, loadVars, svcVars, fjVars, fcVars, fhVars, ppVars, segVars, rtVars, wfVars>>

ExtendA ==
    /\ eng_a = <<>>
    /\ Beyond(hist_a, cutoff) < MaxExtend
    /\ \E row \in NextRows(hist_a) : hist_a' = AppendRow(hist_a, row)
    /\ UNCHANGED <<hist_b, eng_a, eng_b>>
    /\ FeaturesFrame

ExtendB ==
    /\ eng_b = <<>>
    /\ Beyond(hist_b, cutoff) < MaxExtend
    /\ \E row \in NextRows(hist_b) : hist_b' = AppendRow(hist_b, row)
    /\ UNCHANGED <<hist_a, eng_a, eng_b>>
    /\ FeaturesFrame

EngineerA ==
    /\ eng_a = <<>>
    /\ eng_a' = << engineer_features(hist_a) >>
    /\ UNCHANGED <<hist_a, hist_b, eng_b>>
    /\ FeaturesFrame

EngineerB ==
    /\ eng_b = <<>>
    /\ eng_b' = << engineer_features(hist_b) >>
    /\ UNCHANGED <<hist_a, hist_b, eng_a>>
    /\ FeaturesFrame

NextFeatures == ExtendA \/ ExtendB \/ EngineerA \/ EngineerB

SpecFeatures == InitFeatures /\ [][NextFeatures]_vars

----------------------------------------------------------------------------
\* C7: no look-ahead in engineer_features

Engineered == Len(eng_a) = 1 /\ Len(eng_b) = 1
NonTarget(df) == DOMAIN df \ TARGET_COLUMNS
PosOfDate(df, d) == CHOOSE i \in 1..NRows(df) : df["date"][i] = d
ValueOn(df, c, d) == df[c][PosOfDate(df, d)]

\* the dates up to the cutoff whose row is in both outputs
SharedDates ==
    {d \in Range(eng_a[1]["date"]) \cap Range(eng_b[1]["date"]) : d <= cutoff}

\* C7 as stated: for two histories that agree on every row dated at or before
\* t, the outputs have the same set of non-target columns and the same values
\* in them at row t.
C7_SameColumnsAndValues ==
    Engineered =>
        \A d \in SharedDates :
            /\ NonTarget(eng_a[1]) = NonTarget(eng_b[1])
            /\ \A c \in NonTarget(eng_a[1]) :
                  ValueOn(eng_a[1], c, d) = ValueOn(eng_b[1], c, d)

\* C7 amended: at row t the two outputs hold the same value in every non-target
\* column they both have, and a non-target column that only one of them has
\* is missing (NaN) at row t.
C7_SameValuesWherePresent ==
    Engineered =>
        \A d \in SharedDates :
            /\ \A c \in NonTarget(eng_a[1]) \cap NonTarget(eng_b[1]) :
                  ValueOn(eng_a[1], c, d) = ValueOn(eng_b[1], c, d)
            /\ \A c \in NonTarget(eng_a[1]) \ NonTarget(eng_b[1]) :
                  ValueOn(eng_a[1], c, d) = NaN
            /\ \A c \in NonTarget(eng_b[1]) \ NonTarget(eng_a[1]) :
                  ValueOn(eng_b[1], c, d) = NaN

\* Both outputs keep the row of the cutoff date, the histories differ after
\* it, only one output has the carry columns, and the 30-row windows are full.
C7_Witness ==
    /\ Engineered
    /\ cutoff \in SharedDates
    /\ hist_a # hist_b
    /\ "carry_level" \in DOMAIN eng_a[1]
    /\ "carry_level" \notin DOMAIN eng_b[1]
    /\ ValueOn(eng_a[1], "return_30d_std", cutoff) # NaN
    /\ ValueOn(eng_a[1], "bb_position", cutoff) # NaN

----------------------------------------------------------------------------
\* predictor.py: train_and_evaluate

MaxTrainRows == 9           \* rows of the short training tables
LongTrainRows == 92         \* rows of the long ones (reach the 90-row windows)

TrainLens == {3, 5, 6, MaxTrainRows}
TrainKinds == {"price", "late", "full"}

\* walk-forward accuracies a training run can report, in thousandths
\* the directional accuracies (thousandths) of the walk-forward folds of a
\* run, 24h then 72h: the 72h table ends two rows earlier, so it has the
\* folds of the 24h table or all but the last.  The means are whole numbers.
FoldAccChoices ==
    { << <<>>, <<>> >>,
      << <<500>>, <<490>> >>, << <<500>>, <<520>> >>,
      << <<500, 520>>, <<490>> >>, << <<500, 520>>, <<520, 520>> >>,
      << <<511, 511>>, <<490, 490>> >>, << <<511, 511>>, <<520>> >>,
      << <<600, 600>>, <<490, 490>> >>, << <<600, 600>>, <<520, 520>> >> }

\* a CSV with a header and no rows
EmptyFrame == [c \in {"date", "rate"} |-> <<>>]

DataChoices ==
    {EmptyFrame}
    \cup { BaseFrame([len |-> len, kind |-> k, order |-> "desc", p |-> 1]) :
              len \in TrainLens, k \in TrainKinds }
    \cup { BaseFrame([len |-> MaxTrainRows, kind |-> "late", order |-> "asc", p |-> 0]),
           BaseFrame([len |-> LongTrainRows, kind |-> "price", order |-> "asc", p |-> 1]),
           BaseFrame([len |-> LongTrainRows, kind |-> "full", order |-> "desc", p |-> 0]) }

NoArtifacts == [model_24h |-> <<>>, model_72h |-> <<>>, meta |-> <<>>]

\* int(n * 0.8); the double product rounds to the exact floor for every
\* table length the model reaches
IntMul080(n) == (8 * n) \div 10

\* line 188
with_target_return_3d(eng) ==
    [target_return_3d |-> RatioM1Col(Shift(eng["rate"], -3), eng["rate"])] @@ eng

\* line 189
drop_undefined_targets_none(eng) == eng
drop_undefined_targets(eng) ==
    dropna_any(eng, {"target_return_24h", "target_return_3d"})

\* lines 189-199: the rows the models are fitted and evaluated on
SplitTable(final, feature_cols) ==
    [status |-> IF IntMul080(NRows(final)) = 0 THEN "ValueError" ELSE "ok",
     eng |-> final, feature_cols |-> feature_cols,
     split_idx |-> IntMul080(NRows(final))]

\* lines 183-192
PrepareTargets(eng, feature_cols) ==
    SplitTable(dropna_all(drop_undefined_targets(with_target_return_3d(eng)),
                          Range(feature_cols)),
               feature_cols)

WithAvailable(eng) == PrepareTargets(eng, get_available_features(eng))

\* lines 180-199: the table the models are fitted and evaluated on
TrainingTable(df) == WithAvailable(engineer_features(df))

InitPredictor ==
    /\ data_csv \in DataChoices
    /\ artifacts = NoArtifacts
    /\ fitted = <<>> /\ train_out = <<>> /\ train_pc = "idle"
    /\ recent_data_df = <<>> /\ predict_out = <<>>
    /\ IdleSplit /\ IdleBacktest /\ IdleEnsemble /\ IdleFeatures /\ IdleConfidence /\ IdleLoad /\ IdleService /\ IdleFetchJson /\ IdleFetchCorridor /\ IdleFetchMain /\ IdlePrepare /\ IdleSegments /\ IdleRetrain /\ IdleWalkForward

PredictorFrame == UNCHANGED <<data_csv, splitVars, btVars, ensVars, featVars, confVars, loadVars, svcVars, fjVars, fcVars, fhVars, ppVars, segVars, rtVars, wfVars>>

\* lines 177-178: an empty table
TrainNoData ==
    /\ train_pc = "idle"
    /\ NRows(data_csv) = 0
    /\ train_out' = << [status |-> "ValueError"] >>
    /\ train_pc' = "error"
    /\ UNCHANGED <<artifacts, fitted, recent_data_df, predict_out>>
    /\ PredictorFrame

NoFoldAcc == 500            \* line 141: 0.50
FoldBar == 520              \* line 149: 0.52

\* line 149
folds_above_52(fold_dir_accs) ==
    Cardinality({ i \in DOMAIN fold_dir_accs : fold_dir_accs[i] > FoldBar })

\* lines 140-150: what _walk_forward_cv returns for the accuracies of its
\* folds (the deviation and the R2 are left out)
WalkForwardResult(fold_dir_accs) ==
    IF fold_dir_accs = <<>>
    THEN [mean_dir_acc |-> NoFoldAcc, n_folds |-> 0, folds_above_52 |-> 0]
    ELSE [mean_dir_acc |-> SumSeq(fold_dir_accs) \div Len(fold_dir_accs),
          n_folds |-> Len(fold_dir_accs),
          folds_above_52 |-> folds_above_52(fold_dir_accs)]

\* the models and walk-forward scores a run holds after fitting
Fitted(t, wf_1d, wf_3d) ==
    [feature_cols |-> t.feature_cols,
     wf_dir_acc_1d |-> wf_1d.mean_dir_acc, wf_dir_acc_3d |-> wf_3d.mean_dir_acc,
     wf_folds |-> wf_1d.n_folds,
     wf_folds_above_52_1d |-> wf_1d.folds_above_52,
     wf_folds_above_52_3d |-> wf_3d.folds_above_52]

\* lines 241-251: the fields of the metadata file that the model follows
Metadata(run) ==
    [feature_cols |-> run.feature_cols,
     wf_dir_acc_1d |-> run.wf_dir_acc_1d, wf_dir_acc_3d |-> run.wf_dir_acc_3d,
     wf_folds |-> run.wf_folds]

\* lines 180-235: features, targets, split, fit, evaluation, walk-forward CV.
\* fit refuses a training part without rows (lines 206-210); otherwise the
\* fitted models and their scores are whatever the learner produces.
TrainFit ==
    /\ train_pc = "idle"
    /\ NRows(data_csv) > 0
    /\ train_out' = << TrainingTable(data_csv) >>
    /\ \/ /\ train_out'[1].status = "ValueError"
          /\ train_pc' = "error"
          /\ UNCHANGED fitted
       \/ /\ train_out'[1].status = "ok"
          /\ \E accs \in FoldAccChoices :
                fitted' = << Fitted(train_out'[1], WalkForwardResult(accs[1]),
                                    WalkForwardResult(accs[2])) >>
          /\ train_pc' = "dump_24h"
    /\ UNCHANGED <<artifacts, recent_data_df, predict_out>>
    /\ PredictorFrame

\* line 238
TrainDump24h ==
    /\ train_pc = "dump_24h"
    /\ artifacts' = [artifacts EXCEPT !.model_24h = << fitted[1].feature_cols >>]
    /\ train_pc' = "dump_72h"
    /\ UNCHANGED <<fitted, train_out, recent_data_df, predict_out>>
    /\ PredictorFrame

\* line 239
TrainDump72h ==
    /\ train_pc = "dump_72h"
    /\ artifacts' = [artifacts EXCEPT !.model_72h = << fitted[1].feature_cols >>]
    /\ train_pc' = "meta"
    /\ UNCHANGED <<fitted, train_out, recent_data_df, predict_out>>
    /\ PredictorFrame

\* lines 241-253
TrainWriteMeta ==
    /\ train_pc = "meta"
    /\ artifacts' = [artifacts EXCEPT !.meta = << Metadata(fitted[1]) >>]
    /\ train_pc' = "done"
    /\ UNCHANGED <<fitted, train_out, recent_data_df, predict_out>>
    /\ PredictorFrame

----------------------------------------------------------------------------
\* predictor.py: predict_rate_movement.  A rate tick is 0.01; predicted
\* returns are in 1/10000; a predicted rate is in 1/1000000.

MaxRecentRows == 17         \* rows of the longest request history

RecentChoices ==
    { BaseFrame([len |-> 1, kind |-> "price", order |-> "asc", p |-> 0]),
      BaseFrame([len |-> 2, kind |-> "price", order |-> "asc", p |-> 0]),
      BaseFrame([len |-> 2, kind |-> "full", order |-> "asc", p |-> 0]),
      BaseFrame([len |-> 5, kind |-> "price", order |-> "desc", p |-> 1]),
      BaseFrame([len |-> 5, kind |-> "late", order |-> "asc", p |-> 1]),
      BaseFrame([len |-> MaxRecentRows, kind |-> "price", order |-> "asc", p |-> 1]),
      BaseFrame([len |-> MaxRecentRows, kind |-> "full", order |-> "desc", p |-> 0]) }

\* what model_1d.predict and model_3d.predict can return
PredReturns1d == {-5000, -31, -30, 0, 30, 31, 5000}
PredReturns3d == {-40, 2000}

DefaultAcc == 500           \* lines 317-322: 0.50
EdgeAcc == 510              \* line 359: 0.51

\* round half to even of x / q
RoundHalfEven(x, q) ==
    LET f == x \div q
        r == x % q
    IN  IF 2 * r < q THEN f
        ELSE IF 2 * r > q THEN f + 1
        ELSE IF f % 2 = 0 THEN f ELSE f + 1

ModelsExistEither == artifacts.model_24h # <<>> \/ artifacts.model_72h # <<>>
ModelsExist == artifacts.model_24h # <<>> /\ artifacts.model_72h # <<>>

\* lines 313-322
LoadedMeta ==
    IF artifacts.meta # <<>>
    THEN [feature_cols |-> artifacts.meta[1].feature_cols,
          backtested_acc_1d |-> artifacts.meta[1].wf_dir_acc_1d,
          backtested_acc_3d |-> artifacts.meta[1].wf_dir_acc_3d]
    ELSE [feature_cols |-> PRICE_FEATURES,
          backtested_acc_1d |-> DefaultAcc,
          backtested_acc_3d |-> DefaultAcc]

\* line 332
Available(feature_cols, eng) == SelectSeq(feature_cols, LAMBDA c : c \in DOMAIN eng)

\* predict accepts the columns the model was fitted on, nothing else
Accepts(model, X_cols) == model # <<>> /\ model[1] = X_cols

\* lines 342-356, in 1/1000000; the result is in hundredths
ConfidenceUnclamped(best_acc, pred_return_1d, vol) ==
    LET raw == 150000 + (best_acc - 500) * 7000
        clamped == Max(100000, Min(900000, raw))
    IN  RoundHalfEven(IF vol # NaN /\ vol > 0 /\ Abs(pred_return_1d) > 20 * vol
                      THEN (clamped * 70) \div 100
                      ELSE IF vol # NaN /\ vol > 0 /\ Abs(pred_return_1d) > 10 * vol
                      THEN (clamped * 85) \div 100
                      ELSE clamped, 10000)
Confidence(best_acc, pred_return_1d, vol) ==
    LET raw == 150000 + (best_acc - 500) * 7000
        clamped == Max(100000, Min(900000, raw))
        z_over_2 == vol # NaN /\ vol > 0 /\ Abs(pred_return_1d) > 20 * vol
        z_over_1 == vol # NaN /\ vol > 0 /\ Abs(pred_return_1d) > 10 * vol
        attenuated == IF z_over_2 THEN (clamped * 70) \div 100
                      ELSE IF z_over_1 THEN (clamped * 85) \div 100
                      ELSE clamped
    IN  RoundHalfEven(Max(100000, Min(900000, attenuated)), 10000)

\* line 359
has_edge_inclusive(best_acc) == best_acc >= EdgeAcc
has_edge(best_acc) == best_acc > EdgeAcc

\* lines 361-376
Recommendation(edge, pred_rate_24h, current_rate) ==
    IF edge /\ pred_rate_24h > current_rate * 10030 THEN "WAIT"
    ELSE IF edge /\ pred_rate_24h < current_rate * 9970 THEN "SEND_NOW"
    ELSE "NEUTRAL"

\* lines 326-392 once the features are there
\* lines 363-384: the opening words of the reasoning text
Reasoning(edge, recommendation) ==
    IF recommendation = "WAIT" THEN "Rate predicted to improve"
    ELSE IF recommendation = "SEND_NOW" THEN "Rate may drop"
    ELSE IF ~edge THEN "Rate is stable. The model does not have a statistically significant edge"
    ELSE "Rate is stable. No strong signal either way."

Respond(eng, meta, pred_return_1d, pred_return_3d) ==
    LET latest == NRows(eng)
        current_rate == eng["rate"][latest]
        pred_rate_24h == current_rate * (10000 + pred_return_1d)
        pred_rate_72h == current_rate * (10000 + pred_return_3d)
        best_acc == Max(meta.backtested_acc_1d, meta.backtested_acc_3d)
    IN  [status |-> "ok",
         loaded |-> <<"model_24h", "model_72h">>,
         engineered |-> TRUE,
         feature_cols |-> meta.feature_cols,
         X_pred |-> Available(meta.feature_cols, eng),
         latest_date |-> eng["date"][latest],
         current_rate |-> current_rate,
         pred_return_1d |-> pred_return_1d,
         pred_rate_24h |-> pred_rate_24h,
         pred_rate_72h |-> pred_rate_72h,
         meta_exists |-> artifacts.meta # <<>>,
         best_acc |-> best_acc,
         predicted_rate_24h |-> RoundHalfEven(pred_rate_24h, 10),
         predicted_rate_72h |-> RoundHalfEven(pred_rate_72h, 10),
         confidence_score |-> Confidence(best_acc, pred_return_1d,
                                         eng["return_14d_std"][latest]),
         recommendation |-> Recommendation(has_edge(best_acc), pred_rate_24h,
                                           current_rate),
         reasoning |-> Reasoning(has_edge(best_acc),
                                 Recommendation(has_edge(best_acc), pred_rate_24h,
                                                current_rate))]

\* lines 306-307: a model file is missing
PredictNoModels ==
    /\ predict_out = <<>>
    /\ ~ModelsExist
    /\ \E df \in RecentChoices : recent_data_df' = df
    /\ predict_out' = << [status |-> "FileNotFoundError", loaded |-> <<>>,
                        engineered |-> FALSE] >>
    /\ UNCHANGED <<artifacts, fitted, train_out, train_pc>>
    /\ PredictorFrame

\* lines 325-327: no row is left to take the rate from
PredictIndexError ==
    /\ predict_out = <<>>
    /\ ModelsExist
    /\ \E df \in RecentChoices :
          /\ NRows(engineer_features(df)) = 0
          /\ recent_data_df' = df
    /\ predict_out' = << [status |-> "IndexError", loaded |-> <<"model_24h", "model_72h">>,
                        engineered |-> TRUE] >>
    /\ UNCHANGED <<artifacts, fitted, train_out, train_pc>>
    /\ PredictorFrame

\* lines 332-336: the request's columns are not the ones the models were fitted on
PredictFeatureMismatch ==
    /\ predict_out = <<>>
    /\ ModelsExist
    /\ \E df \in RecentChoices :
          LET eng == engineer_features(df)
              X_cols == Available(LoadedMeta.feature_cols, eng)
          IN  /\ NRows(eng) > 0
              /\ ~(Accepts(artifacts.model_24h, X_cols) /\ Accepts(artifacts.model_72h, X_cols))
              /\ recent_data_df' = df
              /\ predict_out' = << [status |-> "ValueError",
                                   loaded |-> <<"model_24h", "model_72h">>,
                                   engineered |-> TRUE,
                                   feature_cols |-> LoadedMeta.feature_cols,
                                   X_pred |-> X_cols] >>
    /\ UNCHANGED <<artifacts, fitted, train_out, train_pc>>
    /\ PredictorFrame

\* lines 301-392
PredictRateMovement ==
    /\ predict_out = <<>>
    /\ ModelsExist
    /\ \E df \in RecentChoices :
          LET eng == engineer_features(df)
              X_cols == Available(LoadedMeta.feature_cols, eng)
          IN  /\ NRows(eng) > 0
              /\ Accepts(artifacts.model_24h, X_cols)
              /\ Accepts(artifacts.model_72h, X_cols)
              /\ recent_data_df' = df
              /\ \E r1 \in PredReturns1d, r3 \in PredReturns3d :
                    predict_out' = << Respond(eng, LoadedMeta, r1, r3) >>
    /\ UNCHANGED <<artifacts, fitted, train_out, train_pc>>
    /\ PredictorFrame

NextPredictor ==
    \/ TrainNoData \/ TrainFit
    \/ TrainDump24h \/ TrainDump72h \/ TrainWriteMeta
    \/ PredictNoModels \/ PredictIndexError \/ PredictFeatureMismatch
    \/ PredictRateMovement

SpecPredictor == InitPredictor /\ [][NextPredictor]_vars

----------------------------------------------------------------------------
\* C8 - C10: training rows, the rate a prediction starts from, the recommendation

Trained == train_out # <<>> /\ train_out[1].status = "ok"
Predicted == predict_out # <<>> /\ predict_out[1].status = "ok"

\* the chronological rank (1 = earliest) of every row of the table df
RanksOf(df) ==
    Tabulate(NRows(df), LAMBDA j :
        Cardinality({m \in 1..NRows(df) : df["date"][m] <= df["date"][j]}))

\* the rates of df in chronological order
ChronologicalRates(df) ==
    LET ranks == RanksOf(df)
    IN  Tabulate(NRows(df), LAMBDA k :
            df["rate"][CHOOSE j \in 1..NRows(df) : ranks[j] = k])

RankOfDate(df, d) == Cardinality({m \in 1..NRows(df) : df["date"][m] <= d})

\* C8: every row train_and_evaluate fits or evaluates on has a rate 1 row and
\* 3 rows later in the chronological history it was loaded from, and its two
\* targets are the returns to exactly those rates (none undefined, none taken
\* from another row).
C8_TargetsFromLaterRows ==
    Trained =>
        LET X == train_out[1].eng
            history == ChronologicalRates(data_csv)
        IN  \A i \in 1..NRows(X) :
                LET p == RankOfDate(data_csv, X["date"][i])
                IN  /\ p + 3 <= Len(history)
                    /\ X["rate"][i] = history[p]
                    /\ X["target_return_24h"][i] # NaN
                    /\ X["target_return_3d"][i] # NaN
                    /\ X["target_return_24h"][i] = RatioM1(history[p + 1], history[p])
                    /\ X["target_return_3d"][i] = RatioM1(history[p + 3], history[p])

\* A run on a file that is not in date order, with several rows kept.
C8_Witness ==
    /\ Trained
    /\ NRows(train_out[1].eng) >= 2
    /\ NRows(train_out[1].eng) = NRows(data_csv) - 4
    /\ data_csv["date"][1] > data_csv["date"][2]

\* C9: the current_rate of a prediction is the rate of the latest-dated row of
\* the history given, and the predicted 24h rate is that rate times one plus
\* the predicted return.
C9_ScoresLatestRow ==
    Predicted =>
        LET latest == recent_data_df["rate"][LatestPos(recent_data_df)]
        IN  /\ predict_out[1].current_rate = latest
            /\ predict_out[1].pred_rate_24h = latest * (10000 + predict_out[1].pred_return_1d)

\* C10: the recommendation is WAIT exactly when the best backtested accuracy
\* exceeds 0.51 and the predicted 24h rate is more than 0.3% above the current
\* rate, SEND_NOW exactly when the accuracy exceeds 0.51 and the predicted rate
\* is more than 0.3% below it, and NEUTRAL otherwise, always so without a
\* metadata file.
C10_Recommendation ==
    Predicted =>
        LET r == predict_out[1]
            above == r.pred_rate_24h * 1000 > r.current_rate * 10000 * 1003
            below == r.pred_rate_24h * 1000 < r.current_rate * 10000 * 997
        IN  /\ r.recommendation \in {"SEND_NOW", "WAIT", "NEUTRAL"}
            /\ (r.recommendation = "WAIT") <=> (r.best_acc > 510 /\ above)
            /\ (r.recommendation = "SEND_NOW") <=> (r.best_acc > 510 /\ below)
            /\ ~r.meta_exists => r.recommendation = "NEUTRAL"
            /\ r.best_acc <= 510 => r.recommendation = "NEUTRAL"

\* A prediction with an edge that recommends sending now.
C10_Witness ==
    /\ Predicted
    /\ predict_out[1].recommendation = "SEND_NOW"
    /\ predict_out[1].meta_exists
    /\ predict_out[1].best_acc > 510

----------------------------------------------------------------------------
\* predictor.py: the confidence rule of predict_rate_movement (lines 341-356),
\* applied call by call to accuracies, predicted returns and volatilities

MaxConfCalls == 2

ConfAccs == {0, 490, 500, 511, 520, 600, 1000}     \* thousandths
ConfReturns == {-300, 0, 10, 11, 20, 21, 300}       \* 1/10000
ConfVols == {NaN, 0, 1, 10}                         \* return_14d_std, 1/1000

InitConfidence ==
    /\ conf_calls = <<>>
    /\ IdleSplit /\ IdleBacktest /\ IdleEnsemble /\ IdleFeatures /\ IdlePredictor /\ IdleLoad /\ IdleService /\ IdleFetchJson /\ IdleFetchCorridor /\ IdleFetchMain /\ IdlePrepare /\ IdleSegments /\ IdleRetrain /\ IdleWalkForward

ApplyConfidence ==
    /\ Len(conf_calls) < MaxConfCalls
    /\ \E a \in ConfAccs, r \in ConfReturns, v \in ConfVols :
          conf_calls' = Append(conf_calls,
                               [best_acc |-> a, pred_return_1d |-> r, vol |-> v,
                                out |-> Confidence(a, r, v)])
    /\ UNCHANGED <<splitVars, btVars, ensVars, featVars, predVars, loadVars, svcVars, fjVars, fcVars, fhVars, ppVars, segVars, rtVars, wfVars>>

NextConfidence == ApplyConfidence

SpecConfidence == InitConfidence /\ [][NextConfidence]_vars

\* z = |predicted 1-day return| / return_14d_std is defined
ZDefined(c) == c.vol # NaN /\ c.vol > 0
\* z of call c is at most z of call e
ZAtMost(c, e) == Abs(c.pred_return_1d) * e.vol <= Abs(e.pred_return_1d) * c.vol
\* z of call c exceeds k
ZOver(c, k) == Abs(c.pred_return_1d) > k * 10 * c.vol

\* the confidence before attenuation, in hundredths times 10000
BaseConfidence(acc) == Max(100000, Min(900000, 150000 + (acc - 500) * 7000))
Factor(c) == IF ZOver(c, 2) THEN 70 ELSE IF ZOver(c, 1) THEN 85 ELSE 100

\* C11: the confidence is within [0.10, 0.90]; for one backtested accuracy a
\* call with the larger z never has the larger confidence; and the confidence
\* is the accuracy's base value times 1, 0.85 (1 < z <= 2) or 0.70 (z > 2),
\* clamped and rounded to hundredths.
C11_ConfidenceDecays ==
    \A i \in DOMAIN conf_calls :
        LET c == conf_calls[i]
        IN  /\ c.out >= 10 /\ c.out <= 90
            /\ ZDefined(c) =>
                  c.out = RoundHalfEven(Max(100000, Min(900000,
                              (BaseConfidence(c.best_acc) * Factor(c)) \div 100)), 10000)
            /\ \A j \in DOMAIN conf_calls :
                  LET e == conf_calls[j]
                  IN  (c.best_acc = e.best_acc /\ ZDefined(c) /\ ZDefined(e) /\ ZAtMost(c, e))
                          => c.out >= e.out

\* Two calls with one accuracy, the second with z above 2 and a strictly
\* smaller confidence than the first, whose z is at most 1.
C11_Witness ==
    /\ Len(conf_calls) = 2
    /\ conf_calls[1].best_acc = conf_calls[2].best_acc
    /\ ZDefined(conf_calls[1]) /\ ~ZOver(conf_calls[1], 1)
    /\ ZDefined(conf_calls[2]) /\ ZOver(conf_calls[2], 2)
    /\ conf_calls[1].out > conf_calls[2].out

----------------------------------------------------------------------------
\* C12 - C13: the errors of predict_rate_movement

\* C12: a call made while the 24h or the 72h model file is missing ends in
\* FileNotFoundError, with no model loaded and no feature computed, and a
\* call ends that way only then.
C12_MissingModelRaises ==
    [][(predict_out = <<>> /\ predict_out' # <<>>) =>
          /\ (artifacts.model_24h = <<>> \/ artifacts.model_72h = <<>>)
                <=> predict_out'[1].status = "FileNotFoundError"
          /\ predict_out'[1].status = "FileNotFoundError" =>
                /\ predict_out'[1].loaded = <<>>
                /\ ~predict_out'[1].engineered
                /\ DOMAIN predict_out'[1] = {"status", "loaded", "engineered"}]_vars

\* A call made between the two model dumps of a training run: the 24h file
\* exists, the 72h file does not, and the call raised.
C12_Witness ==
    /\ predict_out # <<>> /\ predict_out[1].status = "FileNotFoundError"
    /\ artifacts.model_24h # <<>> /\ artifacts.model_72h = <<>>

\* line 294: "Needs >= 90 rows of history"
MinHistoryRows == 90

\* C13: a call with both model files present and a history shorter than the
\* required minimum ends in an insufficient-data error, never in a
\* prediction and never in another error.
C13_ShortHistoryRaises ==
    (/\ predict_out # <<>>
     /\ predict_out[1].status # "FileNotFoundError"
     /\ NRows(recent_data_df) < MinHistoryRows)
        => predict_out[1].status = "InsufficientDataError"

----------------------------------------------------------------------------
\* predictor.py: load_pair_data (lines 74-100) and the loading step of
\* train_and_evaluate (lines 168-178).  A CSV file is <<>> when absent and
\* <<table>> otherwise; a table is [columns, rows]; a pair name "EUR_USD" is
\* kept as what split("_") makes of it, <<"EUR", "USD">>.

MaxLoadCalls == 2

Pairs == { <<"EUR", "USD">>, <<"GBP", "INR">> }

PAIR_COLUMNS == <<"date", "rate">>
BIG_COLUMNS == <<"from_currency", "to_currency", "date", "rate">>

PairRow(d, r) == [date |-> d, rate |-> r]
BigRow(pair, d, r) == [from_currency |-> pair[1], to_currency |-> pair[2],
                       date |-> d, rate |-> r]

\* the per-pair files prepare_training_data.py writes have rows; a file with
\* the header line alone is a CSV all the same
PairFileChoices ==
    { <<>>,
      << [columns |-> PAIR_COLUMNS, rows |-> <<>>] >>,
      << [columns |-> PAIR_COLUMNS, rows |-> <<PairRow(1, 2), PairRow(2, 3)>>] >> }

BigFileChoices ==
    { <<>>,
      << [columns |-> BIG_COLUMNS, rows |-> <<>>] >>,
      << [columns |-> BIG_COLUMNS,
          rows |-> <<BigRow(<<"EUR", "USD">>, 1, 2), BigRow(<<"EUR", "USD">>, 2, 2)>>] >>,
      << [columns |-> BIG_COLUMNS,
          rows |-> <<BigRow(<<"GBP", "INR">>, 1, 3), BigRow(<<"EUR", "USD">>, 1, 2),
                     BigRow(<<"GBP", "INR">>, 2, 1)>>] >> }

\* the file a csv_path argument names
CsvPathChoices == PairFileChoices \cup (BigFileChoices \ {<<>>})

\* df[(df.from_currency == from_curr) & (df.to_currency == to_curr)]
FilterPair(df, pair_name) ==
    [columns |-> df.columns,
     rows |-> SelectSeq(df.rows, LAMBDA row : /\ row.from_currency = pair_name[1]
                                              /\ row.to_currency = pair_name[2])]

\* df[["date", "rate"]]
DateRate(df) ==
    [columns |-> PAIR_COLUMNS,
     rows |-> [i \in 1..Len(df.rows) |-> PairRow(df.rows[i].date, df.rows[i].rate)]]

Raised(error) == [status |-> error, df |-> <<>>]
Returned(df) == [status |-> "returned", df |-> <<df>>]

\* lines 81-100 without the test of lines 98-99
load_pair_data_unchecked(dir, pair_name) ==
    IF dir.pair_csv[pair_name] # <<>>
    THEN Returned(dir.pair_csv[pair_name][1])
    ELSE IF dir.big_csv = <<>>
    THEN Raised("FileNotFoundError")
    ELSE Returned(DateRate(FilterPair(dir.big_csv[1], pair_name)))
\* lines 81-100
load_pair_data(dir, pair_name) ==
    IF dir.pair_csv[pair_name] # <<>>
    THEN Returned(dir.pair_csv[pair_name][1])
    ELSE IF dir.big_csv = <<>>
    THEN Raised("FileNotFoundError")
    ELSE IF FilterPair(dir.big_csv[1], pair_name).rows = <<>>
    THEN Raised("ValueError")
    ELSE Returned(DateRate(FilterPair(dir.big_csv[1], pair_name)))

\* lines 169-175: the table train_and_evaluate reads
ReadForTraining(dir, pair_name, csv_path) ==
    IF csv_path
    THEN IF dir.csv_path = <<>>
         THEN Raised("FileNotFoundError")
         ELSE IF "from_currency" \in Range(dir.csv_path[1].columns)
         THEN Returned(FilterPair(dir.csv_path[1], pair_name))
         ELSE Returned(dir.csv_path[1])
    ELSE load_pair_data(dir, pair_name)

\* lines 177-180: an empty table raises, any other goes on to
\* engineer_features
CheckNotEmpty(loaded) ==
    IF loaded.status # "returned" THEN loaded
    ELSE IF loaded.df[1].rows = <<>> THEN Raised("ValueError")
    ELSE [status |-> "engineer_features", df |-> loaded.df]

InitLoad ==
    /\ \E pf \in [Pairs -> PairFileChoices], bf \in BigFileChoices, cf \in CsvPathChoices :
          data_dir = [pair_csv |-> pf, big_csv |-> bf, csv_path |-> cf]
    /\ load_calls = <<>>
    /\ IdleSplit /\ IdleBacktest /\ IdleEnsemble /\ IdleFeatures /\ IdlePredictor /\ IdleConfidence /\ IdleService /\ IdleFetchJson /\ IdleFetchCorridor /\ IdleFetchMain /\ IdlePrepare /\ IdleSegments /\ IdleRetrain /\ IdleWalkForward

LoadFrame == UNCHANGED <<data_dir, splitVars, btVars, ensVars, featVars, predVars, confVars, svcVars, fjVars, fcVars, fhVars, ppVars, segVars, rtVars, wfVars>>

\* a call of load_pair_data
CallLoadPairData ==
    /\ Len(load_calls) < MaxLoadCalls
    /\ \E pair_name \in Pairs :
          load_calls' = Append(load_calls,
              [fn |-> "load_pair_data", pair_name |-> pair_name, csv_path |-> FALSE,
               out |-> load_pair_data(data_dir, pair_name)])
    /\ LoadFrame

\* a call of train_and_evaluate, up to line 180
CallTrainAndEvaluate ==
    /\ Len(load_calls) < MaxLoadCalls
    /\ \E pair_name \in Pairs, csv_path \in BOOLEAN :
          load_calls' = Append(load_calls,
              [fn |-> "train_and_evaluate", pair_name |-> pair_name, csv_path |-> csv_path,
               out |-> CheckNotEmpty(ReadForTraining(data_dir, pair_name, csv_path))])
    /\ LoadFrame

NextLoad == CallLoadPairData \/ CallTrainAndEvaluate

SpecLoad == InitLoad /\ [][NextLoad]_vars

\* the file a call reads: <<>> when it does not exist
SourceFile(c) ==
    IF c.csv_path THEN data_dir.csv_path
    ELSE IF data_dir.pair_csv[c.pair_name] # <<>> THEN data_dir.pair_csv[c.pair_name]
    ELSE data_dir.big_csv

\* the rows that file holds for the pair of the call
RowsForPair(c) ==
    IF "from_currency" \in Range(SourceFile(c)[1].columns)
    THEN SelectSeq(SourceFile(c)[1].rows,
                   LAMBDA row : <<row.from_currency, row.to_currency>> = c.pair_name)
    ELSE SourceFile(c)[1].rows

NoRowsForPair(c) == SourceFile(c) # <<>> /\ RowsForPair(c) = <<>>

----------------------------------------------------------------------------
\* main.py: the /predict endpoint (lines 132-216).  A currency code is the
\* tuple of its characters; a rate of the response is in 1/100000; a mock
\* rate is in 1/10000; a date is [year, month, day], as isoformat prints it.

MaxRequests == 2
MaxMidnights == 1

EUR == <<"E", "U", "R">>
USD == <<"U", "S", "D">>
GBP == <<"G", "B", "P">>
MAD == <<"M", "A", "D">>
NGN == <<"N", "G", "N">>
BDT == <<"B", "D", "T">>
EGP == <<"E", "G", "P">>
KES == <<"K", "E", "S">>
JPY == <<"J", "P", "Y">>
INR == <<"I", "N", "R">>
TRY == <<"T", "R", "Y">>
BRL == <<"B", "R", "L">>
MXN == <<"M", "X", "N">>
ZAR == <<"Z", "A", "R">>
CNY == <<"C", "N", "Y">>
PKR == <<"P", "K", "R">>
GHS == <<"G", "H", "S">>
PHP == <<"P", "H", "P">>
THB == <<"T", "H", "B">>
IDR == <<"I", "D", "R">>
KRW == <<"K", "R", "W">>
CHF == <<"C", "H", "F">>
NZD == <<"N", "Z", "D">>

\* lines 80-111, in 1/10000
MOCK_RATES ==
    (<<EUR, USD>> :> 10850) @@ (<<EUR, GBP>> :> 8560) @@ (<<EUR, MAD>> :> 108500) @@
    (<<EUR, NGN>> :> 17500000) @@ (<<EUR, BDT>> :> 1285000) @@ (<<EUR, EGP>> :> 527500) @@
    (<<EUR, KES>> :> 1650000) @@ (<<EUR, JPY>> :> 1625000) @@ (<<EUR, INR>> :> 905000) @@
    (<<EUR, TRY>> :> 352000) @@ (<<EUR, BRL>> :> 59500) @@ (<<EUR, MXN>> :> 187000) @@
    (<<EUR, ZAR>> :> 198500) @@ (<<EUR, CNY>> :> 78500) @@ (<<GBP, INR>> :> 1058000) @@
    (<<GBP, PKR>> :> 3800000) @@ (<<GBP, GHS>> :> 175000) @@ (<<GBP, USD>> :> 12670) @@
    (<<GBP, JPY>> :> 1898000) @@ (<<GBP, ZAR>> :> 231500) @@ (<<USD, PHP>> :> 562000) @@
    (<<USD, MXN>> :> 172500) @@ (<<USD, BRL>> :> 54800) @@ (<<USD, JPY>> :> 1498000) @@
    (<<USD, INR>> :> 834000) @@ (<<USD, TRY>> :> 324500) @@ (<<USD, THB>> :> 356000) @@
    (<<USD, IDR>> :> 157500000) @@ (<<USD, ZAR>> :> 183000) @@ (<<USD, KRW>> :> 13450000)

\* line 113
DEFAULT_RATE == 10000

\* str.upper, letter by letter
ToUpper ==
    ("a" :> "A") @@ ("b" :> "B") @@ ("c" :> "C") @@ ("d" :> "D") @@ ("e" :> "E") @@ ("f" :> "F") @@
    ("g" :> "G") @@ ("h" :> "H") @@ ("i" :> "I") @@ ("j" :> "J") @@ ("k" :> "K") @@ ("l" :> "L") @@
    ("m" :> "M") @@ ("n" :> "N") @@ ("o" :> "O") @@ ("p" :> "P") @@ ("q" :> "Q") @@ ("r" :> "R") @@
    ("s" :> "S") @@ ("t" :> "T") @@ ("u" :> "U") @@ ("v" :> "V") @@ ("w" :> "W") @@ ("x" :> "X") @@
    ("y" :> "Y") @@ ("z" :> "Z")

upper_unchanged(code) == code
upper(code) == [i \in 1..Len(code) |-> IF code[i] \in DOMAIN ToUpper THEN ToUpper[code[i]]
                                        ELSE code[i]]

\* lines 116-119
mock_rate_for_default(from_ccy, to_ccy) == DEFAULT_RATE
mock_rate_for(from_ccy, to_ccy) ==
    IF <<from_ccy, to_ccy>> \in DOMAIN MOCK_RATES THEN MOCK_RATES[<<from_ccy, to_ccy>>]
    ELSE DEFAULT_RATE

\* base * (1 + 0.001 * d) lies exactly half-way between two 4-decimal numbers
\* for 8 rates of the table; the double that the product is lies above the
\* half-way point for 32.45 (d = 1 and d = 3) and below it for the others
ProductAboveTie == { <<324500, 1>>, <<324500, 3>> }

\* lines 189-190, 197: round(base_rate * (1 + 0.001 * d), 4), in 1/10000
RoundedTrend(base_rate, d) ==
    LET whole == base_rate + (base_rate * d) \div 1000
        rest == (base_rate * d) % 1000
    IN  IF 2 * rest < 1000 THEN whole
        ELSE IF 2 * rest > 1000 THEN whole + 1
        ELSE IF <<base_rate, d>> \in ProductAboveTie THEN whole + 1 ELSE whole

\* date.isoformat of the day z days after 1970-01-01
IsoDate(z) == Civil(z)

\* the day an ISO date names
DaysFromCivil(date) ==
    LET y == IF date.month <= 2 THEN date.year - 1 ELSE date.year
        era == y \div 400
        yoe == y - era * 400
        mp == IF date.month > 2 THEN date.month - 3 ELSE date.month + 9
        doy == (153 * mp + 2) \div 5 + date.day - 1
        doe == yoe * 365 + yoe \div 4 - yoe \div 100 + doy
    IN  era * 146097 + doe - 719468

PredictedRate(date, rate) == [date |-> date, rate |-> rate]

\* lines 145-146, 149: data/{FROM}_{TO}.csv; the directory holds at most the
\* file of EUR_USD
DataFile(from_ccy, to_ccy) ==
    IF <<from_ccy, to_ccy>> = <<EUR, USD>> THEN svc_data ELSE <<>>

\* what a fitted model file predicts for the row it is given: a model file
\* is <<the columns it was fitted on, its prediction>>
PredictOf(model) == model[2]

\* lines 149-155: the ML path up to the result of predict_rate_movement
MlResult(from_ccy, to_ccy) ==
    IF DataFile(from_ccy, to_ccy) = <<>> THEN [status |-> "FileNotFoundError"]
    ELSE IF ~ModelsExist THEN [status |-> "FileNotFoundError"]
    ELSE LET eng == engineer_features(DataFile(from_ccy, to_ccy)[1])
         IN  IF NRows(eng) = 0 THEN [status |-> "IndexError"]
             ELSE IF ~(/\ Accepts(artifacts.model_24h, Available(LoadedMeta.feature_cols, eng))
                       /\ Accepts(artifacts.model_72h, Available(LoadedMeta.feature_cols, eng)))
             THEN [status |-> "ValueError"]
             ELSE Respond(eng, LoadedMeta, PredictOf(artifacts.model_24h),
                          PredictOf(artifacts.model_72h))

\* lines 157-180
MlResponse(from_ccy, to_ccy, ml_result, day) ==
    [status_code |-> 200,
     from_currency |-> from_ccy,
     to_currency |-> to_ccy,
     predicted_rate_24h |-> ml_result.predicted_rate_24h,
     predicted_rate_72h |-> ml_result.predicted_rate_72h,
     confidence |-> ml_result.confidence_score,
     recommendation |-> ml_result.recommendation,
     potential_savings |-> <<"0.00", to_ccy>>,
     reasoning |-> <<ml_result.reasoning>>,
     predicted_rates |->
        << PredictedRate(IsoDate(day + 1), ml_result.predicted_rate_24h),
           PredictedRate(IsoDate(day + 2),
                         10 * RoundHalfEven(ml_result.predicted_rate_24h
                                            + ml_result.predicted_rate_72h, 20)),
           PredictedRate(IsoDate(day + 3), ml_result.predicted_rate_72h) >>]

\* lines 194-200 with range(0, 3)
FallbackRatesFromToday(base_rate, day) ==
    [d \in 1..3 |-> PredictedRate(IsoDate(day + d - 1), 10 * RoundedTrend(base_rate, d - 1))]
\* lines 194-200
FallbackRates(base_rate, day) ==
    [d \in 1..3 |-> PredictedRate(IsoDate(day + d), 10 * RoundedTrend(base_rate, d))]

\* lines 186-216
FallbackResponse(from_ccy, to_ccy, day) ==
    [status_code |-> 200,
     from_currency |-> from_ccy,
     to_currency |-> to_ccy,
     predicted_rate_24h |-> 10 * RoundedTrend(mock_rate_for(from_ccy, to_ccy), 1),
     predicted_rate_72h |-> 10 * RoundedTrend(mock_rate_for(from_ccy, to_ccy), 3),
     confidence |-> 75,
     recommendation |-> "NEUTRAL",
     potential_savings |-> <<"0.00", to_ccy>>,
     reasoning |-> <<"Fallback prediction for", from_ccy, to_ccy>>,
     predicted_rates |-> FallbackRates(mock_rate_for(from_ccy, to_ccy), day)]

Served(request, error, response) ==
    [request |-> request, day |-> today, data |-> svc_data, models |-> artifacts,
     error |-> error, response |-> response]

\* the request bodies: listed, unlisted and reversed pairs, in either case
Requests ==
    { [from_currency |-> EUR, to_currency |-> USD],
      [from_currency |-> <<"e", "u", "r">>, to_currency |-> <<"U", "s", "d">>],
      [from_currency |-> USD, to_currency |-> TRY],
      [from_currency |-> <<"u", "s", "d">>, to_currency |-> <<"t", "r", "y">>],
      [from_currency |-> CHF, to_currency |-> NZD],
      [from_currency |-> USD, to_currency |-> EUR] }

ServiceData ==
    { <<>>,
      << BaseFrame([len |-> 1, kind |-> "price", order |-> "asc", p |-> 0]) >>,
      << BaseFrame([len |-> 5, kind |-> "price", order |-> "desc", p |-> 1]) >> }

ServiceModels ==
    { NoArtifacts,
      [model_24h |-> <<PRICE_FEATURES, 31>>, model_72h |-> <<>>, meta |-> <<>>],
      [model_24h |-> <<PRICE_FEATURES, 31>>, model_72h |-> <<PRICE_FEATURES, -40>>,
       meta |-> <<>>],
      [model_24h |-> <<PRICE_FEATURES, 31>>, model_72h |-> <<PRICE_FEATURES, 2000>>,
       meta |-> << [feature_cols |-> PRICE_FEATURES, wf_dir_acc_1d |-> 600,
                    wf_dir_acc_3d |-> 520, wf_folds |-> 2] >>],
      [model_24h |-> <<<<"log_return">>, 31>>, model_72h |-> <<<<"log_return">>, -40>>,
       meta |-> <<>>] }

\* 2023-12-30: the three dates of a response cross the end of the year
FirstDay == 19721

InitService ==
    /\ svc_data \in ServiceData
    /\ today = FirstDay
    /\ responses = <<>>
    /\ artifacts \in ServiceModels
    /\ data_csv = <<>> /\ fitted = <<>> /\ train_out = <<>> /\ train_pc = "idle"
    /\ recent_data_df = <<>> /\ predict_out = <<>>
    /\ IdleSplit /\ IdleBacktest /\ IdleEnsemble /\ IdleFeatures /\ IdleConfidence /\ IdleLoad /\ IdleFetchJson /\ IdleFetchCorridor /\ IdleFetchMain /\ IdlePrepare /\ IdleSegments /\ IdleRetrain /\ IdleWalkForward

ServiceFrame == UNCHANGED <<splitVars, btVars, ensVars, featVars, predVars, confVars, loadVars, fjVars, fcVars, fhVars, ppVars, segVars, rtVars, wfVars>>

\* lines 141-180: the ML path answers
PredictRateMl ==
    /\ Len(responses) < MaxRequests
    /\ \E request \in Requests :
          LET from_ccy == upper(request.from_currency)
              to_ccy == upper(request.to_currency)
          IN  /\ MlResult(from_ccy, to_ccy).status = "ok"
              /\ responses' = Append(responses,
                    Served(request, "none",
                           MlResponse(from_ccy, to_ccy, MlResult(from_ccy, to_ccy), today)))
    /\ UNCHANGED <<svc_data, today>>
    /\ ServiceFrame

\* lines 141-155, 182-216: the ML path raises, the handler answers with the
\* mock rates
PredictRateFallback ==
    /\ Len(responses) < MaxRequests
    /\ \E request \in Requests :
          LET from_ccy == upper(request.from_currency)
              to_ccy == upper(request.to_currency)
          IN  /\ MlResult(from_ccy, to_ccy).status # "ok"
              /\ responses' = Append(responses,
                    Served(request, MlResult(from_ccy, to_ccy).status,
                           FallbackResponse(from_ccy, to_ccy, today)))
    /\ UNCHANGED <<svc_data, today>>
    /\ ServiceFrame

\* the calendar day changes between two requests
Midnight ==
    /\ today < FirstDay + MaxMidnights
    /\ today' = today + 1
    /\ UNCHANGED <<svc_data, responses>>
    /\ ServiceFrame

\* the data file is written, replaced or removed between two requests
WriteDataFile ==
    /\ responses # <<>>
    /\ Len(responses) < MaxRequests
    /\ responses[Len(responses)].data = svc_data
    /\ \E file \in ServiceData \ {svc_data} : svc_data' = file
    /\ UNCHANGED <<today, responses>>
    /\ ServiceFrame

NextService == PredictRateMl \/ PredictRateFallback \/ Midnight \/ WriteDataFile

SpecService == InitService /\ [][NextService]_vars

----------------------------------------------------------------------------
\* C15 - C18: the responses of /predict

Failed(e) == e.error # "none"
FallbackLabel == "Fallback prediction for"

\* C15: a request whose prediction could not be computed (no data file, no
\* model file, no usable row, any other exception of the ML path) is not
\* answered with a success response.
C15_FailureIsAnErrorResponse ==
    \A i \in DOMAIN responses :
        Failed(responses[i]) => responses[i].response.status_code # 200

\* two codes that differ in letter case at most
SameLetters(a, b) ==
    /\ Len(a) = Len(b)
    /\ \A k \in 1..Len(a) :
          \/ a[k] = b[k]
          \/ a[k] \in DOMAIN ToUpper /\ ToUpper[a[k]] = b[k]
          \/ b[k] \in DOMAIN ToUpper /\ ToUpper[b[k]] = a[k]

\* the mock rate of the upper-cased pair of a request, in 1/10000
BaseOf(request) ==
    IF \E key \in DOMAIN MOCK_RATES : /\ SameLetters(key[1], request.from_currency)
                                       /\ SameLetters(key[2], request.to_currency)
    THEN MOCK_RATES[CHOOSE key \in DOMAIN MOCK_RATES :
                        /\ SameLetters(key[1], request.from_currency)
                        /\ SameLetters(key[2], request.to_currency)]
    ELSE DEFAULT_RATE

\* C16: whenever the ML path fails, the response carries round(base * 1.001, 4)
\* and round(base * 1.003, 4) for base the listed mock rate of FROM/TO, or 1.0
\* for a pair that is not listed (1.0861 and 1.0883 for EUR/USD, 32.4825 and
\* 32.5474 for USD/TRY, 1.001 and 1.003 for an unlisted pair), recommendation
\* NEUTRAL, confidence 0.75 and a reasoning that opens with the fallback
\* label, which no answer of the ML path carries.
C16_FallbackIsLabelledMock ==
    \A i \in DOMAIN responses :
        LET e == responses[i]
            r == e.response
        IN  /\ Failed(e) =>
                /\ r.predicted_rate_24h = 10 * RoundedTrend(BaseOf(e.request), 1)
                /\ r.predicted_rate_72h = 10 * RoundedTrend(BaseOf(e.request), 3)
                /\ <<r.from_currency, r.to_currency>> = <<EUR, USD>> =>
                      r.predicted_rate_24h = 108610 /\ r.predicted_rate_72h = 108830
                /\ <<r.from_currency, r.to_currency>> = <<USD, TRY>> =>
                      r.predicted_rate_24h = 3248250 /\ r.predicted_rate_72h = 3254740
                /\ <<r.from_currency, r.to_currency>> \notin DOMAIN MOCK_RATES =>
                      r.predicted_rate_24h = 100100 /\ r.predicted_rate_72h = 100300
                /\ r.recommendation = "NEUTRAL"
                /\ r.confidence = 75
                /\ r.reasoning[1] = FallbackLabel
            /\ ~Failed(e) => r.reasoning[1] # FallbackLabel

\* A request that broke on the one-row data file (IndexError) and a request
\* for an unlisted pair, both answered from the mock rates.
C16_Witness ==
    /\ Len(responses) = 2
    /\ responses[1].error = "IndexError"
    /\ responses[1].response.predicted_rate_24h = 108610
    /\ responses[2].request.from_currency = CHF
    /\ responses[2].error = "FileNotFoundError"
    /\ responses[2].response.predicted_rate_72h = 100300

SameCorridor(a, b) ==
    /\ SameLetters(a.from_currency, b.from_currency)
    /\ SameLetters(a.to_currency, b.to_currency)

UpperCase(code) == \A k \in 1..Len(code) : code[k] \notin DOMAIN ToUpper

\* C17: two requests for one corridor, whatever the letter case of the codes,
\* served on one day from the same data and model files get the same
\* response, and the response names the corridor in upper case.
C17_SameRequestSameResponse ==
    \A i, j \in DOMAIN responses :
        LET a == responses[i]
            b == responses[j]
        IN  /\ UpperCase(a.response.from_currency)
            /\ UpperCase(a.response.to_currency)
            /\ SameLetters(a.response.from_currency, a.request.from_currency)
            /\ SameLetters(a.response.to_currency, a.request.to_currency)
            /\ (/\ SameCorridor(a.request, b.request)
                /\ a.day = b.day /\ a.data = b.data /\ a.models = b.models)
                  => a.response = b.response

\* EUR/USD asked in upper and in mixed case on one day from the same files,
\* answered by the ML path both times.
C17_Witness ==
    /\ Len(responses) = 2
    /\ responses[1].request # responses[2].request
    /\ SameCorridor(responses[1].request, responses[2].request)
    /\ responses[1].day = responses[2].day
    /\ responses[1].data = responses[2].data
    /\ ~Failed(responses[1]) /\ ~Failed(responses[2])
    /\ responses[1].response = responses[2].response

\* C18: every response has three predicted_rates entries, dated 1, 2 and 3
\* days after the day it was served, the first with the rate
\* predicted_rate_24h and the third with the rate predicted_rate_72h.
C18_ThreeDatedRates ==
    \A i \in DOMAIN responses :
        LET e == responses[i]
            entries == e.response.predicted_rates
        IN  /\ Len(entries) = 3
            /\ \A d \in 1..3 : /\ entries[d].date.month \in 1..12
                               /\ entries[d].date.day \in 1..31
                               /\ DaysFromCivil(entries[d].date) = e.day + d
            /\ entries[1].rate = e.response.predicted_rate_24h
            /\ entries[3].rate = e.response.predicted_rate_72h

\* An answer of the ML path and an answer from the mock rates, both served on
\* 2023-12-30: the dates run from 2023-12-31 to 2024-01-02.
C18_Witness ==
    /\ Len(responses) = 2
    /\ ~Failed(responses[1]) /\ Failed(responses[2])
    /\ \A i \in 1..2 :
          /\ responses[i].day = FirstDay
          /\ responses[i].response.predicted_rates[1].date = [year |-> 2023, month |-> 12, day |-> 31]
          /\ responses[i].response.predicted_rates[3].date = [year |-> 2024, month |-> 1, day |-> 2]

----------------------------------------------------------------------------
\* data/fetch_historical.py: _fetch_json (lines 101-118).  What the function
\* returns is <<>> for None and <<document>> for a parsed JSON document.

MaxRetries == 4

Urls == {"/v1/1999-01-04..2000-01-04", "/v1/2000-01-05..2000-06-30"}

None == <<>>

\* json.loads of the bodies a server may send; the body null parses to None
ParsedBodies == { None, <<"{}">>, <<"{rates: {}}">>, <<"{rates: {1999-01-04: {USD: 1.18}}}">> }

InitFetchJson ==
    /\ fj_url \in Urls
    /\ fj_retries \in 0..MaxRetries
    /\ fj_attempt = 0
    /\ fj_pc = "for"
    /\ fj_gets = <<>> /\ fj_sleeps = <<>> /\ fj_result = <<>>
    /\ IdleSplit /\ IdleBacktest /\ IdleEnsemble /\ IdleFeatures /\ IdlePredictor /\ IdleConfidence /\ IdleLoad /\ IdleService /\ IdleFetchCorridor /\ IdleFetchMain /\ IdlePrepare /\ IdleSegments /\ IdleRetrain /\ IdleWalkForward

FetchJsonFrame == UNCHANGED <<fj_url, fj_retries, splitVars, btVars, ensVars, featVars, predVars, confVars, loadVars, svcVars, fcVars, fhVars, ppVars, segVars, rtVars, wfVars>>

\* line 115 with the bound of the loop itself
sleeps_after_every_failure(attempt, retries) == attempt < retries
\* line 115
sleeps_after(attempt, retries) == attempt < retries - 1

\* line 116
backoff(attempt) == 2 ^ attempt

\* line 103: for attempt in range(retries); line 118 when the range is used up
ForAttempt ==
    /\ fj_pc = "for"
    /\ IF fj_attempt < fj_retries
       THEN fj_pc' = "get" /\ UNCHANGED fj_result
       ELSE fj_pc' = "done" /\ fj_result' = << None >>
    /\ UNCHANGED <<fj_attempt, fj_gets, fj_sleeps>>
    /\ FetchJsonFrame

\* lines 104-112: the request succeeds and its body parses
GetReturns ==
    /\ fj_pc = "get"
    /\ \E body \in ParsedBodies :
          /\ fj_gets' = Append(fj_gets, [attempt |-> fj_attempt, url |-> fj_url,
                                         ok |-> TRUE, body |-> body])
          /\ fj_result' = << body >>
    /\ fj_pc' = "done"
    /\ UNCHANGED <<fj_attempt, fj_sleeps>>
    /\ FetchJsonFrame

\* lines 104-113: the request, the status check or the parsing raises
GetRaises ==
    /\ fj_pc = "get"
    /\ fj_gets' = Append(fj_gets, [attempt |-> fj_attempt, url |-> fj_url,
                                   ok |-> FALSE, body |-> None])
    /\ fj_pc' = "except"
    /\ UNCHANGED <<fj_attempt, fj_sleeps, fj_result>>
    /\ FetchJsonFrame

\* lines 113-116
Except ==
    /\ fj_pc = "except"
    /\ fj_sleeps' = IF sleeps_after(fj_attempt, fj_retries)
                    THEN Append(fj_sleeps, [attempt |-> fj_attempt,
                                            seconds |-> backoff(fj_attempt)])
                    ELSE fj_sleeps
    /\ fj_attempt' = fj_attempt + 1
    /\ fj_pc' = "for"
    /\ UNCHANGED <<fj_gets, fj_result>>
    /\ FetchJsonFrame

NextFetchJson == ForAttempt \/ GetReturns \/ GetRaises \/ Except

SpecFetchJson == InitFetchJson /\ [][NextFetchJson]_vars

\* the function runs on: a request returns or raises within its timeout
FairFetchJson == SpecFetchJson /\ WF_vars(NextFetchJson)

\* what holds of the requests and sleeps made so far, and of the result
FetchJsonSoFar ==
    /\ Len(fj_gets) <= fj_retries
    /\ \A i \in DOMAIN fj_gets :
          /\ fj_gets[i].attempt = i - 1
          /\ fj_gets[i].url = fj_url
          /\ i < Len(fj_gets) => ~fj_gets[i].ok
    /\ \A i \in DOMAIN fj_sleeps :
          /\ fj_sleeps[i].attempt = i - 1
          /\ fj_sleeps[i].seconds = 2 ^ (i - 1)
          /\ i < fj_retries
    /\ Len(fj_sleeps) <= Len(fj_gets)
    /\ (fj_pc = "done") = (fj_result # <<>>)
    /\ fj_pc = "done" =>
          /\ Len(fj_sleeps) = Max(Len(fj_gets) - 1, 0)
          /\ \/ /\ fj_gets # <<>>
                /\ fj_gets[Len(fj_gets)].ok
                /\ fj_result[1] = fj_gets[Len(fj_gets)].body
             \/ /\ \A i \in DOMAIN fj_gets : ~fj_gets[i].ok
                /\ Len(fj_gets) = fj_retries
                /\ fj_result[1] = None

\* C19: _fetch_json returns, after at most `retries` requests: the parsed
\* body of the first request that succeeds, with no request after it, or
\* None after exactly `retries` failed requests; it sleeps 2^k seconds after
\* failed attempt k only when attempt k + 1 follows.
C19_ReturnsWithinRetries == [] FetchJsonSoFar /\ <>(fj_pc = "done")

\* Three requests of three failed: sleeps of 1 and 2 seconds, none after the
\* last failure, and None returned.
C19_Witness ==
    /\ fj_pc = "done" /\ fj_retries = 3
    /\ Len(fj_gets) = 3 /\ \A i \in 1..3 : ~fj_gets[i].ok
    /\ fj_sleeps = << [attempt |-> 0, seconds |-> 1], [attempt |-> 1, seconds |-> 2] >>
    /\ fj_result = << None >>

----------------------------------------------------------------------------
\* data/fetch_historical.py: fetch_corridor (lines 137-174), called for
\* EUR/USD.  A date is a number of days since 1970-01-01; what _fetch_json
\* returned is None or <<document>>, a document being the set of its keys and
\* the items of its "rates" entry, each <<date, rate_map>>.

MaxChunks == 3

\* line 72
CHUNK_DAYS == 365

\* line 66: 1999-01-04
START_DATE == 10595

StartDates == {START_DATE, START_DATE + CHUNK_DAYS}

\* the ends asked for lie from one day before start to MaxChunks chunks after
EndOffsets ==
    {-1, 0, 1, CHUNK_DAYS, CHUNK_DAYS + 1}
    \cup { k * (CHUNK_DAYS + 1) - 1 : k \in 2..MaxChunks }
    \cup { k * (CHUNK_DAYS + 1) : k \in 2..(MaxChunks - 1) }

\* what _fetch_json can hand back for the chunk from a to b
FetchOutcomes(a, b) ==
    { None,
      << [keys |-> {}, items |-> <<>>] >>,
      << [keys |-> {"message"}, items |-> <<>>] >>,
      << [keys |-> {"base", "rates"}, items |-> << <<a, [USD |-> <<118>>]>> >>] >>,
      << [keys |-> {"base", "rates"},
          items |-> << <<a, [GBP |-> <<85>>]>>, <<b, [USD |-> <<119>>, GBP |-> <<85>>]>>,
                       <<b + 1, [USD |-> <<>>]>> >>] >> }

\* dict.get(key): <<>> for None
Get(rate_map, key) == IF key \in DOMAIN rate_map THEN rate_map[key] ELSE None

\* lines 158-167: the rows one document adds
RowsAdded(data, to_currency) ==
    IF data # None /\ data[1].keys # {} /\ "rates" \in data[1].keys
    THEN LET kept == SelectSeq(data[1].items,
                               LAMBDA item : Get(item[2], to_currency) # None)
         IN  [i \in 1..Len(kept) |->
                 [date |-> kept[i][1], from_currency |-> "EUR",
                  to_currency |-> to_currency,
                  rate |-> Get(kept[i][2], to_currency)[1]]]
    ELSE <<>>

\* line 152 without the min
chunk_end_unclipped(start, end) == start + CHUNK_DAYS
\* line 152
chunk_end_of(start, end) == Min(start + CHUNK_DAYS, end)

InitFetchCorridor ==
    /\ fc_start \in StartDates
    /\ \E o \in EndOffsets : fc_end = fc_start + o
    /\ chunk_start = fc_start
    /\ fc_chunks = <<>> /\ fc_rows = <<>>
    /\ fc_pc = "loop"
    /\ IdleSplit /\ IdleBacktest /\ IdleEnsemble /\ IdleFeatures /\ IdlePredictor /\ IdleConfidence /\ IdleLoad /\ IdleService /\ IdleFetchJson /\ IdleFetchMain /\ IdlePrepare /\ IdleSegments /\ IdleRetrain /\ IdleWalkForward

FetchCorridorFrame == UNCHANGED <<fc_start, fc_end, splitVars, btVars, ensVars, featVars, predVars, confVars, loadVars, svcVars, fjVars, fhVars, ppVars, segVars, rtVars, wfVars>>

\* lines 151-170: one turn of the loop
FetchChunk ==
    /\ fc_pc = "loop"
    /\ chunk_start <= fc_end
    /\ \E data \in FetchOutcomes(chunk_start, chunk_end_of(chunk_start, fc_end)) :
          /\ fc_chunks' = Append(fc_chunks,
                [chunk_start |-> chunk_start,
                 chunk_end |-> chunk_end_of(chunk_start, fc_end),
                 data |-> data,
                 added |-> RowsAdded(data, "USD")])
          /\ fc_rows' = fc_rows \o RowsAdded(data, "USD")
    /\ chunk_start' = chunk_end_of(chunk_start, fc_end) + 1
    /\ UNCHANGED fc_pc
    /\ FetchCorridorFrame

\* lines 151, 172: the loop ends and rows is returned
ReturnRows ==
    /\ fc_pc = "loop"
    /\ chunk_start > fc_end
    /\ fc_pc' = "done"
    /\ UNCHANGED <<chunk_start, fc_chunks, fc_rows>>
    /\ FetchCorridorFrame

NextFetchCorridor == FetchChunk \/ ReturnRows

SpecFetchCorridor == InitFetchCorridor /\ [][NextFetchCorridor]_vars

\* the function runs on: _fetch_json returns (C19)
FairFetchCorridor == SpecFetchCorridor /\ WF_vars(NextFetchCorridor)

\* the chunks that hold the date d
ChunksWith(d) ==
    {i \in DOMAIN fc_chunks : fc_chunks[i].chunk_start <= d /\ d <= fc_chunks[i].chunk_end}

\* what holds of the chunks requested and the rows gathered so far
FetchCorridorSoFar ==
    fc_start <= fc_end =>
        /\ \A i \in DOMAIN fc_chunks :
              /\ fc_chunks[i].chunk_start =
                    (IF i = 1 THEN fc_start ELSE fc_chunks[i - 1].chunk_end + 1)
              /\ fc_chunks[i].chunk_start <= fc_chunks[i].chunk_end
              /\ fc_chunks[i].chunk_end <= fc_end
              /\ fc_chunks[i].chunk_end - fc_chunks[i].chunk_start + 1 <= CHUNK_DAYS + 1
              /\ fc_chunks[i].data = None => fc_chunks[i].added = <<>>
        /\ Len(fc_chunks) <= (fc_end - fc_start) \div (CHUNK_DAYS + 1) + 1
        /\ fc_rows = Flatten([i \in DOMAIN fc_chunks |-> fc_chunks[i].added])
        /\ fc_pc = "done" =>
              /\ \A d \in fc_start..fc_end : Cardinality(ChunksWith(d)) = 1
              /\ fc_start = fc_end => Len(fc_chunks) = 1
              /\ (\A i \in DOMAIN fc_chunks : fc_chunks[i].data = None) => fc_rows = <<>>

\* C20: for start <= end the chunks requested are consecutive inclusive
\* ranges, the first from start, each of at most CHUNK_DAYS + 1 days, none
\* beyond end; the call returns, and then every date of [start, end] lies in
\* exactly one chunk, one chunk was requested if start = end, the rows are
\* the rows of the chunks that brought some, in order, and there are none if
\* every chunk failed.
C20_ChunksCoverTheRange == [] FetchCorridorSoFar /\ <>(fc_pc = "done")

\* Three chunks: the first failed, the second brought rows, and the third
\* was still requested and ends on the end date.
C20_Witness ==
    /\ fc_pc = "done"
    /\ Len(fc_chunks) = 3
    /\ fc_chunks[1].data = None
    /\ fc_chunks[2].added # <<>>
    /\ fc_chunks[3].chunk_end = fc_end
    /\ fc_rows = fc_chunks[2].added \o fc_chunks[3].added

----------------------------------------------------------------------------
\* data/fetch_historical.py: validate_corridors (lines 82-94) and main
\* (lines 177-208).  A fetched row is [date, from_currency, to_currency].

MaxFetchedRows == 2

\* lines 49-53, in alphabetical order
SUPPORTED_SORTED ==
    << "AUD", "BRL", "CAD", "CHF", "CNY", "CZK", "DKK", "EUR", "GBP", "HKD",
       "HUF", "IDR", "ILS", "INR", "ISK", "JPY", "KRW", "MXN", "MYR", "NOK",
       "NZD", "PHP", "PLN", "RON", "SEK", "SGD", "THB", "TRY", "USD", "ZAR" >>

SUPPORTED_CURRENCIES == Range(SUPPORTED_SORTED)

Corridor(base, targets) == [base |-> base, targets |-> targets]

\* the configurations main is run with: the dict keys are distinct
CorridorConfigs ==
    { <<>>,
      << Corridor("USD", <<"PHP">>) >>,
      << Corridor("EUR", <<"USD", "GBP">>), Corridor("GBP", <<"INR">>) >>,
      << Corridor("USD", <<"MXN", "BRL">>), Corridor("GBP", <<"USD", "JPY">>) >>,
      << Corridor("EUR", <<"MAD">>) >>,
      << Corridor("MAD", <<"USD">>) >>,
      << Corridor("EUR", <<"USD", "EUR">>) >>,
      << Corridor("XAU", <<"XAU", "USD">>), Corridor("USD", <<"NGN", "PHP">>) >> }

BaseError(base) == [kind |-> "base not supported", currency |-> base, base |-> base]
TargetError(target, base) == [kind |-> "target not supported", currency |-> target, base |-> base]
SameError(base, target) == [kind |-> "base and target are the same", currency |-> target, base |-> base]

\* lines 88-92: the errors of one target
TargetErrors(base, target) ==
    (IF target \notin SUPPORTED_CURRENCIES THEN <<TargetError(target, base)>> ELSE <<>>)
    \o (IF base = target THEN <<SameError(base, target)>> ELSE <<>>)

\* lines 85-92 without the loop over the targets
base_errors_only(corridors) ==
    Flatten([i \in 1..Len(corridors) |->
        IF corridors[i].base \notin SUPPORTED_CURRENCIES
        THEN <<BaseError(corridors[i].base)>> ELSE <<>>])
\* lines 84-92: the list errors
validation_errors(corridors) ==
    Flatten([i \in 1..Len(corridors) |->
        (IF corridors[i].base \notin SUPPORTED_CURRENCIES
         THEN <<BaseError(corridors[i].base)>> ELSE <<>>)
        \o Flatten([j \in 1..Len(corridors[i].targets) |->
                TargetErrors(corridors[i].base, corridors[i].targets[j])])])

\* lines 186-187: the corridors in the order of the two loops
CorridorList(corridors) ==
    Flatten([i \in 1..Len(corridors) |->
        [j \in 1..Len(corridors[i].targets) |->
            <<corridors[i].base, corridors[i].targets[j]>>]])

\* what fetch_corridor can return for a corridor: rows in the order received
FetchedRows(pair) ==
    { <<>> } \cup
    { [k \in 1..n |-> [date |-> n + 1 - k, from_currency |-> pair[1], to_currency |-> pair[2]]]
        : n \in 1..MaxFetchedRows }

CodeRank(code) == CHOOSE i \in DOMAIN SUPPORTED_SORTED : SUPPORTED_SORTED[i] = code

\* line 196: the sort key (date, from_currency, to_currency), compared
KeyAtMost(a, b) ==
    \/ a.date < b.date
    \/ /\ a.date = b.date
       /\ \/ CodeRank(a.from_currency) < CodeRank(b.from_currency)
          \/ /\ a.from_currency = b.from_currency
             /\ CodeRank(a.to_currency) <= CodeRank(b.to_currency)

\* line 196: list.sort, stable
RECURSIVE SortByKey(_)
SortByKey(rs) ==
    IF rs = <<>> THEN <<>>
    ELSE LET sorted == SortByKey(SubSeq(rs, 1, Len(rs) - 1))
             last == rs[Len(rs)]
             before == Cardinality({i \in DOMAIN sorted : KeyAtMost(sorted[i], last)})
         IN  SubSeq(sorted, 1, before) \o <<last>> \o SubSeq(sorted, before + 1, Len(sorted))

InitFetchMain ==
    /\ fh_corridors \in CorridorConfigs
    /\ fh_pc = "validate"
    /\ fh_errors = <<>> /\ fh_fetched = <<>> /\ all_rows = <<>> /\ fh_output = <<>>
    /\ IdleSplit /\ IdleBacktest /\ IdleEnsemble /\ IdleFeatures /\ IdlePredictor /\ IdleConfidence /\ IdleLoad /\ IdleService /\ IdleFetchJson /\ IdleFetchCorridor /\ IdlePrepare /\ IdleSegments /\ IdleRetrain /\ IdleWalkForward

FetchMainFrame == UNCHANGED <<fh_corridors, splitVars, btVars, ensVars, featVars, predVars, confVars, loadVars, svcVars, fjVars, fcVars, ppVars, segVars, rtVars, wfVars>>

\* line 178, lines 82-94
ValidateCorridors ==
    /\ fh_pc = "validate"
    /\ fh_errors' = validation_errors(fh_corridors)
    /\ fh_pc' = IF fh_errors' # <<>> THEN "raised" ELSE "fetch"
    /\ UNCHANGED <<fh_fetched, all_rows, fh_output>>
    /\ FetchMainFrame

\* lines 186-192: one corridor is fetched
FetchNextCorridor ==
    /\ fh_pc = "fetch"
    /\ Len(fh_fetched) < Len(CorridorList(fh_corridors))
    /\ fh_fetched' = Append(fh_fetched, CorridorList(fh_corridors)[Len(fh_fetched) + 1])
    /\ \E rs \in FetchedRows(CorridorList(fh_corridors)[Len(fh_fetched) + 1]) :
          all_rows' = all_rows \o rs
    /\ UNCHANGED <<fh_pc, fh_errors, fh_output>>
    /\ FetchMainFrame

\* lines 193-195: nothing was fetched
ExitNoData ==
    /\ fh_pc = "fetch"
    /\ Len(fh_fetched) = Len(CorridorList(fh_corridors))
    /\ all_rows = <<>>
    /\ fh_pc' = "exit"
    /\ UNCHANGED <<fh_errors, fh_fetched, all_rows, fh_output>>
    /\ FetchMainFrame

\* lines 197-206: the rows are sorted and written
SaveCsv ==
    /\ fh_pc = "fetch"
    /\ Len(fh_fetched) = Len(CorridorList(fh_corridors))
    /\ all_rows # <<>>
    /\ all_rows' = SortByKey(all_rows)
    /\ fh_output' = << all_rows' >>
    /\ fh_pc' = "done"
    /\ UNCHANGED <<fh_errors, fh_fetched>>
    /\ FetchMainFrame

NextFetchMain == ValidateCorridors \/ FetchNextCorridor \/ ExitNoData \/ SaveCsv

SpecFetchMain == InitFetchMain /\ [][NextFetchMain]_vars

\* the currencies of a configuration that validate_corridors must refuse
Offending(corridors) ==
    { c.base : c \in { d \in Range(corridors) : d.base \notin SUPPORTED_CURRENCIES } }
    \cup { t \in UNION { Range(c.targets) : c \in Range(corridors) } :
              t \notin SUPPORTED_CURRENCIES }
    \cup { c.base : c \in { d \in Range(corridors) : d.base \in Range(d.targets) } }

\* C21: validate_corridors raises exactly when a base or a target is not a
\* supported currency or a base is among its own targets, its message names
\* every such currency, and a run of main that raised has fetched no corridor
\* and written no CSV; a run that did not raise fetches the corridors.
C21_ValidationGuardsTheFetch ==
    /\ fh_pc \notin {"idle", "validate"} =>
          /\ (fh_pc = "raised") = (Offending(fh_corridors) # {})
          /\ { fh_errors[i].currency : i \in DOMAIN fh_errors } = Offending(fh_corridors)
    /\ fh_pc = "raised" => fh_fetched = <<>> /\ all_rows = <<>> /\ fh_output = <<>>
    /\ fh_fetched # <<>> => Offending(fh_corridors) = {}

\* {"EUR": ["MAD"]}: the run raised naming MAD, and nothing was fetched
C21_Witness ==
    /\ fh_corridors = << Corridor("EUR", <<"MAD">>) >>
    /\ fh_pc = "raised"
    /\ fh_errors = << TargetError("MAD", "EUR") >>
    /\ fh_fetched = <<>> /\ fh_output = <<>>

----------------------------------------------------------------------------
\* data/prepare_training_data.py: load_fred, load_cot, prepare_pair
\*
\* One pair and one source column are followed: a fundamental column of
\* fred_data.csv or a positioning column of cot_data.csv.  Dates are days
\* 1..MaxDay, values are small integers, an empty cell is NaN.

MaxDay == 4

SourceValues == {10, 20}

PrepareDays == 1 .. MaxDay

\* the rows of a file whose dates are the set ds, in date order
RECURSIVE RowsOn(_, _)
RowsOn(ds, value) ==
    IF ds = {} THEN <<>>
    ELSE LET last == CHOOSE x \in ds : \A y \in ds : y <= x
         IN  Append(RowsOn(ds \ {last}, value), <<last, value[last]>>)

DatesOf(ds) == RowsOn(ds, [x \in ds |-> 0])

\* Series.ffill: every missing value takes the last value present above it
RECURSIVE ffill(_)
ffill(rs) ==
    IF rs = <<>> THEN <<>>
    ELSE LET above == ffill(SubSeq(rs, 1, Len(rs) - 1))
             last == rs[Len(rs)]
         IN  IF last[2] = NaN /\ above # <<>>
             THEN Append(above, <<last[1], above[Len(above)][2]>>)
             ELSE Append(above, last)

\* DataFrame.merge(right, on="date", how="left"): the left rows in their
\* order, each with the value of the right row of the same date, NaN when
\* the right table has no row of that date
merge_left(dates, right) ==
    [i \in DOMAIN dates |->
        IF \E j \in DOMAIN right : right[j][1] = dates[i][1]
        THEN <<dates[i][1], right[CHOOSE j \in DOMAIN right : right[j][1] = dates[i][1]][2]>>
        ELSE <<dates[i][1], NaN>>]

\* lines 178-208 and 222-226: the merge, then the forward fill of the column
merge_and_ffill(dates, right) == ffill(merge_left(dates, right))

InitPrepare ==
    /\ pp_kind \in {"fred", "cot"}
    /\ \E ds \in (SUBSET PrepareDays) \ {{}} : pp_fx = DatesOf(ds)
    /\ \E ds \in (SUBSET PrepareDays) \ {{}} :
          \E value \in [ds -> SourceValues \cup {NaN}] : pp_file = RowsOn(ds, value)
    /\ pp_source = <<>> /\ pp_table = <<>>
    /\ pp_pc = "load"
    /\ IdleSplit /\ IdleBacktest /\ IdleEnsemble /\ IdleFeatures /\ IdlePredictor /\ IdleConfidence /\ IdleLoad /\ IdleService /\ IdleFetchJson /\ IdleFetchCorridor /\ IdleFetchMain /\ IdleSegments /\ IdleRetrain /\ IdleWalkForward

PrepareFrame == UNCHANGED <<pp_fx, pp_kind, pp_file, splitVars, btVars, ensVars, featVars, predVars, confVars, loadVars, svcVars, fjVars, fcVars, fhVars, segVars, rtVars, wfVars>>

\* lines 106-127: the file is read, sorted by date and forward filled
LoadFred ==
    /\ pp_pc = "load" /\ pp_kind = "fred"
    /\ pp_source' = ffill(pp_file)
    /\ pp_pc' = "prepare"
    /\ UNCHANGED pp_table
    /\ PrepareFrame

\* lines 130-142: the file is read as it is
LoadCot ==
    /\ pp_pc = "load" /\ pp_kind = "cot"
    /\ pp_source' = pp_file
    /\ pp_pc' = "prepare"
    /\ UNCHANGED pp_table
    /\ PrepareFrame

\* lines 167-244: the pair's FX rows, left-merged with the source on the
\* date, the column forward filled
PreparePair ==
    /\ pp_pc = "prepare"
    /\ pp_table' = merge_and_ffill(pp_fx, pp_source)
    /\ pp_pc' = "done"
    /\ UNCHANGED pp_source
    /\ PrepareFrame

NextPrepare == LoadFred \/ LoadCot \/ PreparePair

SpecPrepare == InitPrepare /\ [][NextPrepare]_vars

\* the observations of the file: its rows whose cell is not empty
Observations == { j \in DOMAIN pp_file : pp_file[j][2] # NaN }

\* the value of the most recent observation dated at or before day x
MostRecent(x) ==
    LET upto == { j \in Observations : pp_file[j][1] <= x }
    IN  IF upto = {} THEN NaN
        ELSE pp_file[CHOOSE j \in upto : \A k \in upto : pp_file[k][1] <= pp_file[j][1]][2]

\* C22: in the table prepare_pair returns, the column's value on FX date d
\* is the most recent source observation dated at or before d, missing when
\* there is none, also when that observation's date is not an FX date.
C22_MostRecentObservation ==
    pp_pc = "done" =>
        \A i \in DOMAIN pp_table : pp_table[i][2] = MostRecent(pp_table[i][1])

\* the part that holds: a value of the table is never from an observation
\* dated after the row, and a row dated on an observation carries it
C22_NoLookAhead ==
    pp_pc = "done" =>
        \A i \in DOMAIN pp_table :
            /\ pp_table[i][2] # NaN =>
                  \E j \in Observations :
                      /\ pp_file[j][1] <= pp_table[i][1]
                      /\ pp_file[j][2] = pp_table[i][2]
            /\ \A j \in Observations :
                  pp_file[j][1] = pp_table[i][1] => pp_table[i][2] = pp_file[j][2]

----------------------------------------------------------------------------
\* C23: the optional tiers and get_available_features

\* the feature columns engineer_features derives from a source column
DerivedFrom(source) ==
    CASE source = "rate_differential" -> {"carry_level", "carry_change_30d", "carry_zscore_90d"}
      [] source = "vix" -> {"vix_level", "vix_change_5d", "vix_zscore_90d"}
      [] source = "usd_index" -> {"usd_return_5d", "usd_vs_90d_sma"}
      [] source = "us_yield_spread" -> {"yield_curve"}
      [] source = "wti_crude" -> {"oil_return_30d"}
      [] source = "hy_spread" -> {"hy_spread_zscore"}
      [] source = "cot_from_lev_net" -> {"cot_from_zscore", "cot_from_change"}
      [] source = "cot_to_lev_net" -> {"cot_to_zscore", "cot_to_change"}

RegistryPos(col) == CHOOSE k \in DOMAIN ALL_POSSIBLE_FEATURES : ALL_POSSIBLE_FEATURES[k] = col

Populated(df) ==
    { c \in DOMAIN df : \E i \in DOMAIN df[c] : df[c][i] # NaN }

\* C23: get_available_features returns the registry entries that are columns
\* of the engineered table with a value somewhere, in registry order;
\* engineer_features returns a table and creates no feature of a source column
\* that is absent or entirely missing, so a history of date and rate only
\* yields price features only.
C23_AvailableFeatures ==
    Len(eng_a) = 1 =>
        LET available == get_available_features(eng_a[1])
        IN  /\ {"date", "rate"} \subseteq DOMAIN eng_a[1]
            /\ Range(available) = Range(ALL_POSSIBLE_FEATURES) \cap Populated(eng_a[1])
            /\ \A i, j \in DOMAIN available :
                  i < j => RegistryPos(available[i]) < RegistryPos(available[j])
            /\ \A source \in Range(SOURCE_COLUMNS) :
                  source \notin Populated(hist_a) =>
                      DerivedFrom(source) \cap DOMAIN eng_a[1] = {}
            /\ DOMAIN hist_a = {"date", "rate"} =>
                  Range(available) \subseteq Range(PRICE_FEATURES)

\* a history merged with the VIX and one positioning column only: the VIX
\* level is available, no oil or carry feature exists
C23_Witness ==
    /\ Len(eng_a) = 1
    /\ DOMAIN hist_a = {"date", "rate"} \cup PARTIAL_COLUMNS
    /\ "vix_level" \in Range(get_available_features(eng_a[1]))
    /\ "log_return" \in Range(get_available_features(eng_a[1]))
    /\ "vix_zscore_90d" \in DOMAIN eng_a[1]
    /\ "vix_zscore_90d" \notin Range(get_available_features(eng_a[1]))
    /\ DOMAIN eng_a[1] \cap (DerivedFrom("wti_crude") \cup DerivedFrom("rate_differential")) = {}

----------------------------------------------------------------------------
\* C24: which corridors get a recommendation other than NEUTRAL

\* the run whose metadata file the prediction read
RunBehindMeta == fitted # <<>> /\ artifacts.meta = << Metadata(fitted[1]) >>

\* C24: a prediction recommends SEND_NOW or WAIT only for a corridor whose
\* mean walk-forward directional accuracy exceeds the edge threshold and
\* which has folds that individually exceed 52% (at least one, whatever the
\* minimum fraction is); a corridor without usable folds gets NEUTRAL.
C24_EdgeNeedsFolds ==
    (Predicted /\ predict_out[1].recommendation \in {"SEND_NOW", "WAIT"}) =>
        /\ RunBehindMeta
        /\ Max(fitted[1].wf_dir_acc_1d, fitted[1].wf_dir_acc_3d) > EdgeAcc
        /\ fitted[1].wf_folds > 0
        /\ fitted[1].wf_folds_above_52_1d + fitted[1].wf_folds_above_52_3d > 0

\* the rule the code applies: the better of the two mean accuracies alone
C24_EdgeIsMeanAccuracy ==
    (Predicted /\ predict_out[1].recommendation \in {"SEND_NOW", "WAIT"}) =>
        /\ RunBehindMeta
        /\ Max(fitted[1].wf_dir_acc_1d, fitted[1].wf_dir_acc_3d) > EdgeAcc
        /\ fitted[1].wf_folds > 0

----------------------------------------------------------------------------
\* C25: a history whose rate never moves

ConstantHistory(df) == \A i, j \in DOMAIN df["rate"] : df["rate"][i] = df["rate"][j]

\* C25: on a constant-rate history engineer_features returns, and past each
\* warm-up window the RSI is 50, the Bollinger position is a value inside its
\* bound, the normalised MACD values and the return volatilities are 0: no
\* price feature of such a row is missing.
C25_ConstantHistoryIsDefined ==
    (Len(eng_a) = 1 /\ ConstantHistory(hist_a)) =>
        \A i \in 1..NRows(eng_a[1]) :
            /\ i > 14 => eng_a[1]["rsi_14d"][i] = 50 * SCALE
            /\ i > 19 => eng_a[1]["bb_position"][i] \in 0..SCALE
            /\ eng_a[1]["macd_pct"][i] = 0
            /\ eng_a[1]["macd_signal_pct"][i] = 0
            /\ eng_a[1]["macd_histogram"][i] = 0
            /\ i > 7 => eng_a[1]["return_7d_std"][i] = 0
            /\ i > 14 => eng_a[1]["return_14d_std"][i] = 0
            /\ i > 30 => eng_a[1]["return_30d_std"][i] = 0

\* what holds of it: the call returns, the MACD values and the volatilities
\* are 0, and the RSI and the Bollinger position are missing in every row
C25_ConstantHistoryLeavesGaps ==
    (Len(eng_a) = 1 /\ ConstantHistory(hist_a)) =>
        \A i \in 1..NRows(eng_a[1]) :
            /\ eng_a[1]["rsi_14d"][i] = NaN
            /\ eng_a[1]["bb_position"][i] = NaN
            /\ eng_a[1]["macd_pct"][i] = 0
            /\ eng_a[1]["macd_signal_pct"][i] = 0
            /\ eng_a[1]["macd_histogram"][i] = 0
            /\ i > 7 => eng_a[1]["return_7d_std"][i] = 0
            /\ i > 14 => eng_a[1]["return_14d_std"][i] = 0
            /\ i > 30 => eng_a[1]["return_30d_std"][i] = 0

----------------------------------------------------------------------------
\* C26: the corridors build_global_dataset skips

\* the corridors the loop has dealt with, in loop order
Processed == SubSeq(CorridorOrder, 1, Len(CorridorOrder) - Len(pending))

UsableRows(c) == Len(csv[c]) - Min(WARMUP_ROWS, Len(csv[c])) - FORWARD_WINDOW

\* long enough in all three senses
LongEnough(c) ==
    /\ Len(csv[c]) >= 120
    /\ UsableRows(c) >= 80
    /\ te_start(UsableRows(c)) < UsableRows(c) - 20

\* the corridors of a list of slices, one per slice
CorridorsOf(slices) == [k \in DOMAIN slices |-> slices[k][1].corr]

\* the rows a corridor contributes when it is the only one in the file
Alone(c) ==
    LET feat == reset_index(sort_values(engineer_and_dropna(csv[c])))
    IN  << ILoc(feat, 0, tr_end(Len(feat))),
           ILoc(feat, va_start(Len(feat)), va_end(Len(feat))),
           ILoc(feat, te_start(Len(feat)), Len(feat)) >>

\* every too-short corridor is skipped and every other corridor contributes
\* the rows it contributes alone
SkipsLeaveOthersAlone ==
    /\ CorridorsOf(train_sl) = SelectSeq(Processed, LongEnough)
    /\ \A k \in Accepted : SegmentsOf(k) = Alone(train_sl[k][1].corr)

\* C26: every too-short corridor is skipped without changing the rows of any
\* other corridor, and build_global_dataset returns its three tables however
\* many corridors it skipped, all of them included.
C26_SkipsAndReturns ==
    /\ SkipsLeaveOthersAlone
    /\ split_pc # "error"

\* what holds: the skips leave the other corridors alone, and the tables are
\* returned exactly when a corridor was accepted
C26_ReturnsIfAnyAccepted ==
    /\ SkipsLeaveOthersAlone
    /\ split_pc = "done" => train_sl # <<>> /\ train = reset_index(Flatten(train_sl))
    /\ split_pc = "error" => train_sl = <<>> /\ pending = <<>>
                             /\ \A c \in Corridors : ~LongEnough(c)

----------------------------------------------------------------------------
\* C27: the columns of the feature vector predict_rate_movement builds

\* predict_rate_movement got as far as building X_pred
BuiltX == predict_out # <<>> /\ predict_out[1].status \in {"ok", "ValueError"}

\* C27: the feature vector has exactly the columns of the persisted
\* feature_cols (PRICE_FEATURES without a metadata file), in that order,
\* whatever optional columns the history has: a feature that cannot be
\* computed is passed as a missing value, not dropped.
C27_VectorHasTrainingColumns ==
    BuiltX =>
        /\ predict_out[1].feature_cols \in
              {PRICE_FEATURES} \cup { fitted[k].feature_cols : k \in DOMAIN fitted }
        /\ predict_out[1].X_pred = predict_out[1].feature_cols

\* what holds: the vector has the columns of feature_cols that the engineered
\* history has, in the order of feature_cols, and the models score it only
\* when none was dropped
C27_VectorHasTheColumnsPresent ==
    BuiltX =>
        /\ predict_out[1].X_pred =
              SelectSeq(predict_out[1].feature_cols,
                        LAMBDA c : c \in DOMAIN engineer_features(recent_data_df))
        /\ predict_out[1].status = "ok" =>
              predict_out[1].X_pred = predict_out[1].feature_cols

----------------------------------------------------------------------------
\* train.py: the segment bounds of build_global_dataset (lines 51-63) for one
\* corridor with n usable rows, over every n and every purge width

MaxUsable == 400            \* the largest usable row count
MaxPurge == 45              \* the largest PURGE_DAYS

InitSegments ==
    /\ FORWARD_WINDOW \in 0..MaxPurge
    /\ WARMUP_ROWS = 0 /\ csv = <<>> /\ pending = <<>>
    /\ train_sl = <<>> /\ val_sl = <<>> /\ test_sl = <<>>
    /\ train = <<>> /\ val = <<>> /\ test = <<>>
    /\ split_pc = "idle"
    /\ seg_n \in MinUsableRows..MaxUsable
    /\ seg_bounds = <<>> /\ seg_pc = "bounds"
    /\ IdleBacktest /\ IdleEnsemble /\ IdleFeatures /\ IdlePredictor /\ IdleConfidence /\ IdleLoad /\ IdleService /\ IdleFetchJson /\ IdleFetchCorridor /\ IdleFetchMain /\ IdlePrepare /\ IdleRetrain /\ IdleWalkForward

SegmentsFrame == UNCHANGED <<seg_n, splitVars, btVars, ensVars, featVars, predVars, confVars, loadVars, svcVars, fjVars, fcVars, fhVars, ppVars, rtVars, wfVars>>

\* lines 53-56
Bounds(n, accepted) ==
    [tr_end |-> tr_end(n), va_start |-> va_start(n), va_end |-> va_end(n),
     te_start |-> te_start(n), accepted |-> accepted]

\* lines 58-59: the corridor is refused
RefuseSegments ==
    /\ seg_pc = "bounds"
    /\ te_start(seg_n) >= seg_n - MinTestRows
    /\ seg_bounds' = << Bounds(seg_n, FALSE) >>
    /\ seg_pc' = "done"
    /\ SegmentsFrame

\* lines 58-63: the corridor is accepted and sliced
AcceptSegments ==
    /\ seg_pc = "bounds"
    /\ te_start(seg_n) < seg_n - MinTestRows
    /\ seg_bounds' = << Bounds(seg_n, TRUE) >>
    /\ seg_pc' = "done"
    /\ SegmentsFrame

NextSegments == RefuseSegments \/ AcceptSegments

SpecSegments == InitSegments /\ [][NextSegments]_vars

\* C28: a corridor that passes te_start < n - 20 has a non-empty training
\* segment [0, tr_end), a non-empty validation segment [va_start, va_end)
\* and more than 20 test rows [te_start, n), for every n >= 80 and every
\* PURGE_DAYS >= 0; the purge gaps are PURGE_DAYS rows wide.
C28_AcceptedSegmentsNonEmpty ==
    (seg_pc = "done" /\ seg_bounds[1].accepted) =>
        /\ 0 < seg_bounds[1].tr_end
        /\ seg_bounds[1].va_start = seg_bounds[1].tr_end + FORWARD_WINDOW
        /\ seg_bounds[1].va_start < seg_bounds[1].va_end
        /\ seg_bounds[1].te_start = seg_bounds[1].va_end + FORWARD_WINDOW
        /\ seg_bounds[1].te_start <= seg_n
        /\ seg_n - seg_bounds[1].te_start > 20

\* 400 usable rows and a purge of 39: accepted with 21 validation rows
C28_Witness ==
    /\ seg_pc = "done" /\ seg_n = 400 /\ FORWARD_WINDOW = 39
    /\ seg_bounds[1].accepted
    /\ seg_bounds[1].va_end - seg_bounds[1].va_start = 21
    /\ seg_n - seg_bounds[1].te_start = 21

----------------------------------------------------------------------------
\* predictor.py: train_and_evaluate run again for a pair while
\* predict_rate_movement serves it.  Neither takes a lock; each file access
\* is one step.  A file holds the number of the run that wrote it and what
\* that run fitted.

MaxRuns == 2                \* training runs
MaxPredictions == 2         \* calls of predict_rate_movement

\* the feature_cols of a run: the price features, or also the fundamental ones
RunFeatureCols == { PRICE_FEATURES, PRICE_FEATURES \o FUNDAMENTAL_FEATURES }

RunAccs == {500, 600}

InitRetrain ==
    /\ rt_dir = NoArtifacts
    /\ rt_run = 0 /\ rt_fit = <<>> /\ rt_train_pc = "idle"
    /\ rt_pc = "idle" /\ rt_loaded = <<>> /\ rt_predictions = <<>>
    /\ IdleSplit /\ IdleBacktest /\ IdleEnsemble /\ IdleFeatures /\ IdlePredictor /\ IdleConfidence /\ IdleLoad /\ IdleService /\ IdleFetchJson /\ IdleFetchCorridor /\ IdleFetchMain /\ IdlePrepare /\ IdleSegments /\ IdleWalkForward

RetrainFrame == UNCHANGED <<splitVars, btVars, ensVars, featVars, predVars, confVars, loadVars, svcVars, fjVars, fcVars, fhVars, ppVars, segVars, wfVars>>

ReaderIdle == UNCHANGED <<rt_pc, rt_loaded, rt_predictions>>
TrainerIdle == UNCHANGED <<rt_dir, rt_run, rt_fit, rt_train_pc>>

\* lines 166-235: a run loads, fits and evaluates
RetrainFit ==
    /\ rt_train_pc = "idle" /\ rt_run < MaxRuns
    /\ rt_run' = rt_run + 1
    /\ \E cols \in RunFeatureCols, acc \in RunAccs :
          rt_fit' = << [run |-> rt_run + 1, feature_cols |-> cols, wf_dir_acc_1d |-> acc] >>
    /\ rt_train_pc' = "dump_24h"
    /\ UNCHANGED rt_dir
    /\ ReaderIdle /\ RetrainFrame

\* line 238
RetrainDump24h ==
    /\ rt_train_pc = "dump_24h"
    /\ rt_dir' = [rt_dir EXCEPT !.model_24h =
                     << [run |-> rt_fit[1].run, feature_cols |-> rt_fit[1].feature_cols] >>]
    /\ rt_train_pc' = "dump_72h"
    /\ UNCHANGED <<rt_run, rt_fit>>
    /\ ReaderIdle /\ RetrainFrame

\* line 239
RetrainDump72h ==
    /\ rt_train_pc = "dump_72h"
    /\ rt_dir' = [rt_dir EXCEPT !.model_72h =
                     << [run |-> rt_fit[1].run, feature_cols |-> rt_fit[1].feature_cols] >>]
    /\ rt_train_pc' = "meta"
    /\ UNCHANGED <<rt_run, rt_fit>>
    /\ ReaderIdle /\ RetrainFrame

\* lines 241-253
RetrainWriteMeta ==
    /\ rt_train_pc = "meta"
    /\ rt_dir' = [rt_dir EXCEPT !.meta = << rt_fit[1] >>]
    /\ rt_train_pc' = "idle"
    /\ rt_fit' = <<>>
    /\ UNCHANGED rt_run
    /\ ReaderIdle /\ RetrainFrame

\* lines 306-307: both model files must exist
ReaderCheckExists ==
    /\ rt_pc = "idle" /\ Len(rt_predictions) < MaxPredictions
    /\ IF rt_dir.model_24h = <<>> \/ rt_dir.model_72h = <<>>
       THEN /\ rt_predictions' = Append(rt_predictions, [status |-> "FileNotFoundError"])
            /\ UNCHANGED rt_pc
       ELSE /\ rt_pc' = "load_24h"
            /\ UNCHANGED rt_predictions
    /\ UNCHANGED rt_loaded
    /\ TrainerIdle /\ RetrainFrame

\* line 309
ReaderLoad24h ==
    /\ rt_pc = "load_24h"
    /\ rt_loaded' = << rt_dir.model_24h[1] >>
    /\ rt_pc' = "load_72h"
    /\ UNCHANGED rt_predictions
    /\ TrainerIdle /\ RetrainFrame

\* line 310
ReaderLoad72h ==
    /\ rt_pc = "load_72h"
    /\ rt_loaded' = Append(rt_loaded, rt_dir.model_72h[1])
    /\ rt_pc' = "meta"
    /\ UNCHANGED rt_predictions
    /\ TrainerIdle /\ RetrainFrame

\* lines 313-322 and the rest of the call, which reads no file
ReaderLoadMeta ==
    /\ rt_pc = "meta"
    /\ rt_predictions' = Append(rt_predictions,
                                [status |-> "ok", model_24h |-> rt_loaded[1],
                                 model_72h |-> rt_loaded[2], meta |-> rt_dir.meta])
    /\ rt_loaded' = <<>>
    /\ rt_pc' = "idle"
    /\ TrainerIdle /\ RetrainFrame

NextRetrain ==
    \/ RetrainFit \/ RetrainDump24h \/ RetrainDump72h \/ RetrainWriteMeta
    \/ ReaderCheckExists \/ ReaderLoad24h \/ ReaderLoad72h \/ ReaderLoadMeta

SpecRetrain == InitRetrain /\ [][NextRetrain]_vars

\* the artifacts a finished call combined are of one training run
OneRun(p) ==
    /\ p.model_24h.run = p.model_72h.run
    /\ p.meta # <<>> => p.meta[1].run = p.model_24h.run

\* C29: a predict_rate_movement that runs while train_and_evaluate rewrites
\* the pair's artifacts never combines artifacts of different training runs.
C29_NoMixedRuns ==
    \A k \in DOMAIN rt_predictions :
        rt_predictions[k].status = "ok" => OneRun(rt_predictions[k])

\* the second half, which holds: no step of predict_rate_movement writes or
\* modifies an artifact file
C29_PredictNeverWrites ==
    [][(rt_pc' # rt_pc \/ rt_predictions' # rt_predictions) => rt_dir' = rt_dir]_vars

----------------------------------------------------------------------------
\* predictor.py: _walk_forward_cv.  The table is followed by the dates of
\* its rows; a fold's directional accuracy is whatever the learner reaches.

TRAIN_YEARS == 5            \* WF_TRAIN_YEARS
TEST_YEARS == 1             \* WF_TEST_YEARS
MinFoldTrain == 200
MinFoldTest == 50

FirstYear == 2015
NYears == 7                 \* calendar years a table can span

\* pd.Timestamp(f"{year}-01-01")
Jan1(year) == DaysFromCivil([year |-> year, month |-> 1, day |-> 1])

\* Series.dt.year
YearOf(date) == Civil(date).year

\* n rows of one year: half from January 1 on, half up to December 31
YearRows(year, n) ==
    SubSeq([k \in 1..n |-> IF k <= (n + 1) \div 2 THEN Jan1(year) + k - 1
                           ELSE Jan1(year + 1) - (n - k + 1)], 1, n)

\* the rows a year can have; the last year also loses the rows without a target
RowsPerYear(k) == IF k < NYears THEN {0, 49, 50} ELSE {0, 50, 53}

WfTables ==
    { Flatten([k \in 1..NYears |-> YearRows(FirstYear + k - 1, n[k])]) :
        n \in { m \in [1..NYears -> {0, 49, 50, 53}] :
                   \A k \in 1..NYears : m[k] \in RowsPerYear(k) } } \ {<<>>}

FoldDirAccs == {500, 530}   \* thousandths

InitWalkForward ==
    /\ wf_table \in WfTables
    /\ horizon_shift \in {1, 3}
    /\ wf_eng = <<>> /\ test_start_year = 0
    /\ wf_folds = <<>> /\ wf_result = <<>>
    /\ wf_pc = "start"
    /\ IdleSplit /\ IdleBacktest /\ IdleEnsemble /\ IdleFeatures /\ IdlePredictor /\ IdleConfidence /\ IdleLoad /\ IdleService /\ IdleFetchJson /\ IdleFetchCorridor /\ IdleFetchMain /\ IdlePrepare /\ IdleSegments /\ IdleRetrain

WalkForwardFrame == UNCHANGED <<wf_table, horizon_shift, splitVars, btVars, ensVars, featVars, predVars, confVars, loadVars, svcVars, fjVars, fcVars, fhVars, ppVars, segVars, rtVars>>

\* lines 111-112: the target looks horizon_shift rows ahead, the rows
\* without one are dropped
drop_without_target(dates, shift) == SubSeq(dates, 1, Len(dates) - shift)

min_year(dates) == YearOf(dates[1])
max_year(dates) == YearOf(dates[Len(dates)])

\* a training window that reaches back to the first row
train_mask_expanding(date, year) == date < Jan1(year)

\* lines 121-125
train_mask(date, year) == date >= Jan1(year - TRAIN_YEARS) /\ date < Jan1(year)

\* lines 122-126
test_mask(date, year) == date >= Jan1(year) /\ date < Jan1(year + TEST_YEARS)

TrainRows(year) == SelectSeq(wf_eng, LAMBDA date : train_mask(date, year))
TestRows(year) == SelectSeq(wf_eng, LAMBDA date : test_mask(date, year))

\* lines 109-118
StartWalkForward ==
    /\ wf_pc = "start"
    /\ wf_eng' = drop_without_target(wf_table, horizon_shift)
    /\ test_start_year' = min_year(wf_eng') + TRAIN_YEARS
    /\ wf_pc' = "loop"
    /\ UNCHANGED <<wf_folds, wf_result>>
    /\ WalkForwardFrame

\* lines 120-129: a fold without enough rows
SkipFold ==
    /\ wf_pc = "loop"
    /\ test_start_year <= max_year(wf_eng)
    /\ Len(TrainRows(test_start_year)) < MinFoldTrain
          \/ Len(TestRows(test_start_year)) < MinFoldTest
    /\ test_start_year' = test_start_year + 1
    /\ UNCHANGED <<wf_eng, wf_folds, wf_result, wf_pc>>
    /\ WalkForwardFrame

\* lines 120-138: a fold is fitted and scored
FitFold ==
    /\ wf_pc = "loop"
    /\ test_start_year <= max_year(wf_eng)
    /\ Len(TrainRows(test_start_year)) >= MinFoldTrain
    /\ Len(TestRows(test_start_year)) >= MinFoldTest
    /\ \E acc \in FoldDirAccs :
          wf_folds' = Append(wf_folds,
                             [test_start_year |-> test_start_year,
                              train |-> TrainRows(test_start_year),
                              test |-> TestRows(test_start_year),
                              dir_acc |-> acc])
    /\ test_start_year' = test_start_year + 1
    /\ UNCHANGED <<wf_eng, wf_result, wf_pc>>
    /\ WalkForwardFrame

\* lines 140-150
ReturnWalkForward ==
    /\ wf_pc = "loop"
    /\ test_start_year > max_year(wf_eng)
    /\ wf_result' = << WalkForwardResult([k \in DOMAIN wf_folds |-> wf_folds[k].dir_acc]) >>
    /\ wf_pc' = "done"
    /\ UNCHANGED <<wf_eng, test_start_year, wf_folds>>
    /\ WalkForwardFrame

NextWalkForward == StartWalkForward \/ SkipFold \/ FitFold \/ ReturnWalkForward

SpecWalkForward == InitWalkForward /\ [][NextWalkForward]_vars

\* the rows of the table dated in the calendar years from..to
RowsInYears(from, to) ==
    Cardinality({ i \in DOMAIN wf_eng : YearOf(wf_eng[i]) \in from..to })

\* the test years the loop has dealt with
YearsDone ==
    IF wf_pc \in {"loop", "done"}
    THEN (YearOf(wf_eng[1]) + 5) .. (test_start_year - 1) ELSE {}

====
